---- MODULE Spec2Model ----
(***************************************************************************)
(* Model of the asynchronous calculator / conversion pipeline of           *)
(* number-conversion-rs: the frontend state (src/frontend/state.rs), the   *)
(* calculator page's compute step and expression normalizer               *)
(* (src/ui/pages/calculator.rs) and the backend worker with its two        *)
(* channels (src/backend/worker.rs).                                       *)
(*                                                                         *)
(* Rust strings are sequences of one-character strings; Option<T> is a     *)
(* sequence of length 0 (None) or 1 (Some(x)); Result is a record with an  *)
(* ok flag.                                                                *)
(***************************************************************************)
EXTENDS Integers, Sequences, FiniteSets, TLC

\* ------------------------------------------------------------------------
\* Option and Result
\* ------------------------------------------------------------------------
None == <<>>

Some(x) == <<x>>

Ok(v) == [ok |-> TRUE, val |-> v]

Err(e) == [ok |-> FALSE, err |-> e]

\* ------------------------------------------------------------------------
\* Characters
\* ------------------------------------------------------------------------
DecDigits == <<"0", "1", "2", "3", "4", "5", "6", "7", "8", "9">>

UpperLetters ==
    <<"A", "B", "C", "D", "E", "F", "G", "H", "I", "J", "K", "L", "M",
      "N", "O", "P", "Q", "R", "S", "T", "U", "V", "W", "X", "Y", "Z">>

LowerLetters ==
    <<"a", "b", "c", "d", "e", "f", "g", "h", "i", "j", "k", "l", "m",
      "n", "o", "p", "q", "r", "s", "t", "u", "v", "w", "x", "y", "z">>

Range(s) == {s[k] : k \in DOMAIN s}

IndexOf(s, c) == CHOOSE k \in DOMAIN s : s[k] = c

is_ascii_digit(c) == c \in Range(DecDigits)

is_ascii_uppercase(c) == c \in Range(UpperLetters)

is_ascii_lowercase(c) == c \in Range(LowerLetters)

is_ascii_alphabetic(c) == is_ascii_uppercase(c) \/ is_ascii_lowercase(c)

is_ascii_alphanumeric(c) == is_ascii_alphabetic(c) \/ is_ascii_digit(c)

is_whitespace(c) == c \in {" ", "\t"}

to_ascii_uppercase(c) ==
    IF is_ascii_lowercase(c) THEN UpperLetters[IndexOf(LowerLetters, c)] ELSE c

to_ascii_lowercase(c) ==
    IF is_ascii_uppercase(c) THEN LowerLetters[IndexOf(UpperLetters, c)] ELSE c

to_uppercase(s) == [k \in DOMAIN s |-> to_ascii_uppercase(s[k])]

to_lowercase(s) == [k \in DOMAIN s |-> to_ascii_lowercase(s[k])]

\* s.replace(c, "") / s.chars().filter(|&x| x != c)
RemoveChar(s, c) == SelectSeq(s, LAMBDA x : x # c)

CountChar(s, c) == Len(SelectSeq(s, LAMBDA x : x = c))

RECURSIVE TrimStart(_)
TrimStart(s) ==
    IF s # <<>> /\ is_whitespace(Head(s)) THEN TrimStart(Tail(s)) ELSE s

RECURSIVE TrimEnd(_)
TrimEnd(s) ==
    IF s # <<>> /\ is_whitespace(s[Len(s)])
    THEN TrimEnd(SubSeq(s, 1, Len(s) - 1))
    ELSE s

\* str::trim
Trim(s) == TrimEnd(TrimStart(s))

\* ------------------------------------------------------------------------
\* Integer <-> digit strings
\* ------------------------------------------------------------------------
\* char::to_digit for an upper-cased character
DigitValue(c) ==
    IF is_ascii_digit(c) THEN IndexOf(DecDigits, c) - 1
    ELSE 10 + IndexOf(UpperLetters, c) - 1

\* i128::from_str_radix / u64::from_str_radix on a non-empty string of valid
\* digits (most significant first)
RECURSIVE from_str_radix(_, _)
from_str_radix(s, radix) ==
    CHOOSE res \in
        {IF x = <<>> THEN 0
         ELSE from_str_radix(SubSeq(x, 1, Len(x) - 1), radix) * radix
              + DigitValue(x[Len(x)]) :
            x \in {s}} : TRUE

\* Unsigned integers at their full width (u64, u128) are sequences of 16-bit
\* limbs, least significant first, without leading zero limbs: 0 is <<>>.
\* (An operator that uses an operand or an intermediate result several times
\* binds it as the one element of a singleton set, so that it has one value
\* computed once: CHOOSE r \in {e(x) : x \in {operand}} : TRUE is e(operand).)
LimbBase == 65536

\* a u64 is four limbs
LimbCount == 4

\* `n as u128` for a number of the model
RECURSIVE u128_from(_)
u128_from(n) ==
    CHOOSE res \in
        {IF x = 0 THEN <<>>
         ELSE <<x % LimbBase>> \o u128_from(x \div LimbBase) :
            x \in {n}} : TRUE

\* v / d and v % d for a small divisor d: q is the quotient, r the remainder.
\* (high ranges over the one result of the division of the higher limbs.)
RECURSIVE u128_divrem(_, _)
u128_divrem(v, d) ==
    IF v = <<>> THEN [q |-> <<>>, r |-> 0]
    ELSE CHOOSE res \in
             {[q |-> IF high.q = <<>> /\ (high.r * LimbBase + Head(v)) \div d = 0
                     THEN <<>>
                     ELSE <<(high.r * LimbBase + Head(v)) \div d>> \o high.q,
               r |-> (high.r * LimbBase + Head(v)) % d] :
                 high \in {u128_divrem(Tail(v), d)}} : TRUE

\* v * m + a for m and a below 2^15
RECURSIVE WideMulAdd(_, _, _)
WideMulAdd(v, m, a) ==
    CHOOSE res \in
        {IF x = <<>> THEN (IF c = 0 THEN <<>> ELSE <<c>>)
         ELSE <<(Head(x) * m + c) % LimbBase>>
              \o WideMulAdd(Tail(x), m, (Head(x) * m + c) \div LimbBase) :
            x \in {v}, c \in {a}} : TRUE

\* the limbs without the leading zero limbs
RECURSIVE u128_of_limbs(_)
u128_of_limbs(limbs) ==
    CHOOSE res \in
        {IF x # <<>> /\ x[Len(x)] = 0
         THEN u128_of_limbs(SubSeq(x, 1, Len(x) - 1))
         ELSE x : x \in {limbs}} : TRUE

\* a < b: fewer limbs, or as many and a smaller limb at the highest place
\* where they differ
u128_lt(a, b) ==
    \E x \in {a} : \E y \in {b} :
        \/ Len(x) < Len(y)
        \/ /\ Len(x) = Len(y)
           /\ \E k \in DOMAIN x :
                  /\ x[k] < y[k]
                  /\ \A j \in (k + 1)..Len(x) : x[j] = y[j]

\* the number of iterations of the repeated-division loop that one wide
\* division covers: the largest k with radix^k below half a limb
LoopChunk(radix) ==
    CHOOSE k \in 1..14 :
        radix ^ k < LimbBase \div 2 /\ radix ^ k * radix >= LimbBase \div 2

\* n iterations of the loop on a number below radix^n
ChunkDigitsRev(r, radix, n) == [k \in 1..n |-> (r \div radix ^ (k - 1)) % radix]

\* the number of iterations the loop makes on r > 0
DigitCount(r, radix) ==
    CHOOSE n \in 1..LoopChunk(radix) : radix ^ (n - 1) <= r /\ r < radix ^ n

\* the digit values produced by the repeated-division loop (v % radix, then
\* v /= radix), least significant first. (The loop is followed LoopChunk
\* iterations at a time: v % radix^k holds the next k digits, v / radix^k is
\* what the loop is left with after them.)
RECURSIVE RadixDigitsRev(_, _)
RadixDigitsRev(v, radix) ==
    IF v = <<>> THEN <<>>
    ELSE CHOOSE digits \in
             {IF step.q = <<>>
              THEN ChunkDigitsRev(step.r, radix, DigitCount(step.r, radix))
              ELSE ChunkDigitsRev(step.r, radix, LoopChunk(radix))
                   \o RadixDigitsRev(step.q, radix) :
                 step \in {u128_divrem(v, radix ^ LoopChunk(radix))}} : TRUE

Reverse(s) == CHOOSE r \in {[k \in DOMAIN x |-> x[Len(x) + 1 - k]] : x \in {s}} : TRUE

\* char::from(b'0' + d): the characters that follow '9' in ASCII are kept
AsciiFromZero == DecDigits \o <<":", ";", "<", "=", ">", "?">>

DecDigitChar(d) == AsciiFromZero[d + 1]

HexDigitChar(d) == IF d <= 9 THEN DecDigits[d + 1] ELSE UpperLetters[d - 10 + 1]

format_radix(v, radix) ==
    IF v = <<>> THEN <<"0">>
    ELSE CHOOSE s \in
             {Reverse([k \in DOMAIN buf |-> DecDigitChar(buf[k])]) :
                 buf \in {RadixDigitsRev(v, radix)}} : TRUE

format_radix_hex(v) ==
    IF v = <<>> THEN <<"0">>
    ELSE CHOOSE s \in
             {Reverse([k \in DOMAIN buf |-> HexDigitChar(buf[k])]) :
                 buf \in {RadixDigitsRev(v, 16)}} : TRUE

\* {:0>width}: zeros on the left up to the width
RECURSIVE PadLeftZero(_, _)
PadLeftZero(s, width) ==
    CHOOSE res \in
        {IF Len(x) >= width THEN x ELSE PadLeftZero(<<"0">> \o x, width) :
            x \in {s}} : TRUE

\* u128::to_string of a number of the model
to_string_u(v) == format_radix(u128_from(v), 10)

\* i128::to_string
to_string_i(v) == IF v < 0 THEN <<"-">> \o to_string_u(-v) ELSE to_string_u(v)

\* ------------------------------------------------------------------------
\* Expression normalizer (conversion from the source radix to decimal)
\* ------------------------------------------------------------------------
is_digit_in_radix(ch, radix) ==
    IF is_ascii_digit(ch) THEN DigitValue(ch) < radix
    ELSE IF ch \in {"A", "B", "C", "D", "E", "F"} THEN DigitValue(ch) < radix
    ELSE IF ch \in {"a", "b", "c", "d", "e", "f"}
         THEN DigitValue(to_ascii_uppercase(ch)) < radix
    ELSE ch = "_"

is_number_char(ch, radix) ==
    is_digit_in_radix(ch, radix) \/ (radix = 10 /\ ch = ".")

\* error messages of the normalizer (the source's texts are Chinese)
ErrMultipleDecimalPoints == "invalid number: multiple decimal points"

ErrMalformedDecimal == "invalid number: misplaced decimal point"

ErrInvalidNumber == "invalid number"

ErrDigitOutOfRadix(radix) == "digit out of radix " \o ToString(radix)

ErrUnaryMinusMissingDigits == "unary minus without digits"

ErrUnsupportedCharacter(c) == "unsupported character: " \o c

\* a conversion that strips the separators and keeps the digits as typed
convert_number_token_verbatim(tok, radix) == Ok(RemoveChar(tok, "_"))

convert_number_token(tok, radix) ==
    IF radix = 10 /\ CountChar(tok, ".") > 0
    THEN LET s == RemoveChar(tok, "_") IN
         IF CountChar(tok, ".") > 1 THEN Err(ErrMultipleDecimalPoints)
         ELSE IF Head(s) = "." \/ s[Len(s)] = "." THEN Err(ErrMalformedDecimal)
         ELSE IF ~\A k \in DOMAIN s : is_ascii_digit(s[k]) \/ s[k] = "."
              THEN Err(ErrInvalidNumber)
         ELSE Ok(s)
    ELSE LET s == RemoveChar(tok, "_")
             neg == s # <<>> /\ Head(s) = "-"
             body == IF neg THEN Tail(s) ELSE s
         IN  IF body = <<>> THEN Err(ErrInvalidNumber)
             ELSE IF ~\A k \in DOMAIN body : is_digit_in_radix(body[k], radix)
                  THEN Err(ErrDigitOutOfRadix(radix))
             ELSE LET val == from_str_radix(to_uppercase(body), radix)
                  IN  Ok(to_string_i(IF neg THEN -val ELSE val))

FunctionNames ==
    { <<"s", "i", "n">>, <<"c", "o", "s">>, <<"t", "a", "n">>,
      <<"a", "s", "i", "n">>, <<"a", "c", "o", "s">>, <<"a", "t", "a", "n">>,
      <<"s", "i", "n", "h">>, <<"c", "o", "s", "h">>, <<"t", "a", "n", "h">>,
      <<"l", "o", "g">>, <<"l", "n">>, <<"s", "q", "r", "t">>,
      <<"a", "b", "s">>, <<"f", "l", "o", "o", "r">>, <<"c", "e", "i", "l">>,
      <<"c", "e", "i", "l", "i", "n", "g">>, <<"r", "o", "u", "n", "d">>,
      <<"e", "x", "p">>, <<"p", "o", "w">>, <<"m", "i", "n">>,
      <<"m", "a", "x">> }

is_function_like(name) == to_lowercase(name) \in FunctionNames

is_op(c) == c \in {"+", "-", "*", "/", "%", "^", ",", "(", ")"}

\* while j < chars.len() && is_number_char(chars[j], radix) { j += 1 }
RECURSIVE NumberRunEnd(_, _, _)
NumberRunEnd(chars, j, radix) ==
    IF j <= Len(chars) /\ is_number_char(chars[j], radix)
    THEN NumberRunEnd(chars, j + 1, radix)
    ELSE j

\* while j < chars.len() && (cj.is_ascii_alphanumeric() || cj == '_') { j += 1 }
RECURSIVE IdentRunEnd(_, _)
IdentRunEnd(chars, j) ==
    IF j <= Len(chars) /\ (is_ascii_alphanumeric(chars[j]) \/ chars[j] = "_")
    THEN IdentRunEnd(chars, j + 1)
    ELSE j

\* a check that knows the unary minus at the start of the input only
can_unary_minus_at_start_only(last_kind) == last_kind = "Start"

can_unary_minus(last_kind) == last_kind \in {"Start", "LParen", "Op", "Comma"}

implicit_mul_before_token(last_kind) == last_kind \in {"Number", "RParen", "Ident"}

\* a check that treats every identifier before '(' as a factor
implicit_mul_before_lparen_any_ident(last_kind, last_ident) ==
    last_kind \in {"Number", "RParen", "Ident"}

implicit_mul_before_lparen(last_kind, last_ident) ==
    CASE last_kind \in {"Number", "RParen"} -> TRUE
      [] last_kind = "Ident" ->
            IF last_ident # None THEN ~is_function_like(last_ident[1]) ELSE TRUE
      [] OTHER -> FALSE

\* the scanner after an iteration that did not return
Scanned(i, out, last_kind, last_ident) ==
    Ok([i |-> i, out |-> out, last_kind |-> last_kind, last_ident |-> last_ident])

\* one iteration of the scanning loop of convert_expr_from_base, entered with
\* i <= Len(chars); i is the 1-based position
scan_step(chars, radix, i, out, last_kind, last_ident) ==
    LET c == chars[i] IN
    IF is_whitespace(c)
    THEN Scanned(i + 1, out, last_kind, last_ident)
    ELSE IF c = "-" /\ can_unary_minus(last_kind)
    THEN LET j == NumberRunEnd(chars, i + 1, radix) IN
         IF j = i + 1 THEN Err(ErrUnaryMinusMissingDigits)
         ELSE LET val == convert_number_token(SubSeq(chars, i, j - 1), radix) IN
              IF ~val.ok THEN val
              ELSE Scanned(j, out \o val.val, "Number", last_ident)
    ELSE IF is_number_char(c, radix)
    THEN LET j == NumberRunEnd(chars, i + 1, radix)
             val == convert_number_token(SubSeq(chars, i, j - 1), radix)
         IN  IF ~val.ok THEN val
             ELSE Scanned(j,
                          (IF implicit_mul_before_token(last_kind)
                           THEN out \o <<"*">> ELSE out) \o val.val,
                          "Number", last_ident)
    ELSE IF is_op(c)
    THEN CASE c = "(" ->
                Scanned(i + 1,
                        (IF implicit_mul_before_lparen(last_kind, last_ident)
                         THEN out \o <<"*">> ELSE out) \o <<"(">>,
                        "LParen", last_ident)
           [] c = ")" ->
                Scanned(i + 1, out \o <<")">>, "RParen", last_ident)
           [] c = "," ->
                Scanned(i + 1, out \o <<",">>, "Comma", last_ident)
           [] OTHER ->
                Scanned(i + 1, out \o <<c>>, "Op", last_ident)
    ELSE IF is_ascii_alphabetic(c) \/ c = "_"
    THEN LET j == IdentRunEnd(chars, i + 1)
             token == SubSeq(chars, i, j - 1)
         IN  Scanned(j,
                     (IF implicit_mul_before_token(last_kind)
                      THEN out \o <<"*">> ELSE out) \o token,
                     "Ident", Some(token))
    ELSE Err(ErrUnsupportedCharacter(c))

\* while i < chars.len() { .. } Ok(out)
RECURSIVE Scan(_, _, _, _, _, _)
Scan(chars, radix, i, out, last_kind, last_ident) ==
    IF i > Len(chars) THEN Ok(out)
    ELSE LET step == scan_step(chars, radix, i, out, last_kind, last_ident) IN
         IF ~step.ok THEN step
         ELSE Scan(chars, radix, step.val.i, step.val.out, step.val.last_kind,
                   step.val.last_ident)

convert_expr_from_base(expr, radix) == Scan(expr, radix, 1, <<>>, "Start", None)

\* ------------------------------------------------------------------------
\* Result formatter
\* ------------------------------------------------------------------------
\* an i128 is its sign and its magnitude as a u128
i128_from(n) == [neg |-> n < 0, mag |-> u128_from(IF n < 0 THEN -n ELSE n)]

\* a formatter that renders the integer in decimal whatever the radix
format_value_in_radix_decimal(val, radix) ==
    IF val.neg THEN <<"-">> \o format_radix(val.mag, 10)
    ELSE format_radix(val.mag, 10)

\* (u.to_string() is format_radix(u, 10): the same loop with radix 10)
format_value_in_radix(val, radix) ==
    LET neg == val.neg
        u == val.mag
        s == CASE radix = 10 -> format_radix(u, 10)
               [] radix = 2 -> format_radix(u, 2)
               [] radix = 8 -> format_radix(u, 8)
               [] radix = 16 -> format_radix_hex(u)
               [] OTHER -> format_radix(u, 10)
    IN  IF neg THEN <<"-">> \o s ELSE s

\* f64 values are records. A finite value is
\* [class |-> "finite", n |-> sign and integer part (an i128 whose neg is the
\* sign bit of the f64, so that it is TRUE with mag 0 for -0.0 and -0.5),
\* frac |-> the fractional part in units of 2^-64 (a u64)]; the others are
\* NaN and the two infinities.
F64(n) == [class |-> "finite", n |-> i128_from(n), frac |-> <<>>]

NaN == [class |-> "NaN", n |-> i128_from(0), frac |-> <<>>]

Infinity == [class |-> "inf", n |-> i128_from(0), frac |-> <<>>]

NegInfinity == [class |-> "-inf", n |-> i128_from(0), frac |-> <<>>]

\* f64::is_finite
is_finite(value) == value.class = "finite"

\* significant bits of an f64
F64_MANTISSA_DIGITS == 53

LimbBits == 16

RECURSIVE BitLength(_)
BitLength(x) == IF x = 0 THEN 0 ELSE 1 + BitLength(x \div 2)

RECURSIVE Pow2(_)
Pow2(e) == IF e = 0 THEN 1 ELSE 2 * Pow2(e - 1)

\* v + a for a small a
RECURSIVE u128_add(_, _)
u128_add(v, a) ==
    CHOOSE res \in
        {IF c = 0 THEN x
         ELSE IF x = <<>> THEN <<c>>
         ELSE <<(Head(x) + c) % LimbBase>>
              \o u128_add(Tail(x), (Head(x) + c) \div LimbBase) :
            x \in {v}, c \in {a}} : TRUE

\* the result of an f64 operation whose exact result is the integer n (in
\* some unit 2^-k): n itself while it has at most 53 significant bits, else n
\* rounded to 53 significant bits, to nearest and ties to even. (The e bits
\* rounded away, at most 16, lie in the lowest limb.)
round_to_mantissa(n) ==
    CHOOSE res \in
        {LET bits == IF x = <<>> THEN 0
                     ELSE (Len(x) - 1) * LimbBits + BitLength(x[Len(x)])
             e == bits - F64_MANTISSA_DIGITS
         IN  IF e <= 0 THEN x
             ELSE LET rem == x[1] % Pow2(e)
                      half == Pow2(e - 1)
                      odd == (x[1] \div Pow2(e)) % 2 = 1
                      down == [x EXCEPT ![1] = x[1] - rem]
                      up == rem > half \/ (rem = half /\ odd)
                  IN  IF up THEN u128_add(down, Pow2(e)) ELSE u128_of_limbs(down) :
            x \in {n}} : TRUE

\* `n as f64` for a u64 n
u64_as_f64(n) ==
    [class |-> "finite", n |-> [neg |-> FALSE, mag |-> round_to_mantissa(n)],
     frac |-> <<>>]

\* the constant 1e-12 is the f64 0x119799812DEA11 * 2^-92, here in units of
\* 2^-92
TOLERANCE == <<59921, 33069, 38809, 17>>

\* a count of 2^-64 as a count of 2^-92: times 2^14, twice
frac_scaled(x) == WideMulAdd(WideMulAdd(x, 16384, 0), 16384, 0)

\* 1 - x for a fractional part x # 0
frac_complement(x) ==
    u128_add(u128_of_limbs([k \in 1..LimbCount |->
                               LimbBase - 1 - (IF k <= Len(x) THEN x[k] ELSE 0)]),
             1)

\* val.round() rounds half away from zero: the magnitude goes up from 1/2 on
rounds_up(val) ==
    Len(val.frac) = LimbCount /\ val.frac[LimbCount] >= LimbBase \div 2

\* nearest.abs()
nearest_abs(val) == IF rounds_up(val) THEN u128_add(val.n.mag, 1) ELSE val.n.mag

\* (val - nearest).abs(), a count of 2^-64; the subtraction is exact
nearest_distance(val) ==
    IF val.frac = <<>> THEN <<>>
    ELSE IF rounds_up(val) THEN frac_complement(val.frac)
    ELSE val.frac

\* f64::max(1e-12, 1e-12 * nearest.abs()) in units of 2^-92, the product
\* rounded as an f64 product is (for nearest.abs() below 2^15, which is one
\* limb: values with a fractional part have small integer parts in the model)
tolerance_of(nearest) ==
    IF nearest = <<>> THEN TOLERANCE
    ELSE round_to_mantissa(WideMulAdd(TOLERANCE, nearest[1], 0))

\* nearest.abs() <= (i128::MAX as f64), which is 2^127
fits_i128(nearest) ==
    \/ Len(nearest) < 8
    \/ Len(nearest) = 8 /\ nearest[8] < LimbBase \div 2
    \/ nearest = <<0, 0, 0, 0, 0, 0, 0, LimbBase \div 2>>

\* (val - nearest).abs() <= tol && nearest.abs() <= (i128::MAX as f64)
\* (a distance of 0 is within every tolerance)
is_near_integer(val) ==
    /\ \/ val.frac = <<>>
       \/ ~u128_lt(tolerance_of(nearest_abs(val)), frac_scaled(nearest_distance(val)))
    /\ fits_i128(nearest_abs(val))

\* `nearest as i128`: 0 has no sign
nearest_as_i128(val) ==
    [neg |-> val.n.neg /\ nearest_abs(val) # <<>>, mag |-> nearest_abs(val)]

\* while s.ends_with('0') { s.pop(); }
RECURSIVE pop_zeros(_)
pop_zeros(s) ==
    CHOOSE res \in
        {IF x # <<>> /\ x[Len(x)] = "0" THEN pop_zeros(SubSeq(x, 1, Len(x) - 1))
         ELSE x : x \in {s}} : TRUE

\* 10^12
TEN_POW_12 == <<4096, 54437, 232>>

\* frac to 12 decimal places, a count of 10^-12 up to 10^12: frac * 10^12
\* rounded to nearest, ties to even
decimal_places_12(frac) ==
    CHOOSE places \in
        {LET whole == IF Len(scaled) > LimbCount
                      THEN SubSeq(scaled, LimbCount + 1, Len(scaled)) ELSE <<>>
             rest == IF Len(scaled) > LimbCount
                     THEN u128_of_limbs(SubSeq(scaled, 1, LimbCount)) ELSE scaled
             half == <<0, 0, 0, LimbBase \div 2>>
             up == \/ u128_lt(half, rest)
                   \/ rest = half /\ whole # <<>> /\ whole[1] % 2 = 1
         IN  IF up THEN u128_add(whole, 1) ELSE whole :
            scaled \in {WideMulAdd(WideMulAdd(WideMulAdd(frac, 10000, 0),
                                              10000, 0), 10000, 0)}} : TRUE

\* format!("{:.12}", val), the rounding carried into the integer part where
\* the 12 places round up to 1; then zeros and a trailing point are popped
format_decimal_12(val) ==
    CHOOSE s \in
        {IF popped[Len(popped)] = "." THEN SubSeq(popped, 1, Len(popped) - 1)
         ELSE popped :
            popped \in
                {pop_zeros((IF val.n.neg THEN <<"-">> ELSE <<>>)
                           \o format_radix(IF places = TEN_POW_12
                                           THEN u128_add(val.n.mag, 1)
                                           ELSE val.n.mag, 10)
                           \o <<".">>
                           \o PadLeftZero(format_radix(IF places = TEN_POW_12
                                                       THEN <<>> ELSE places, 10),
                                          12)) :
                    places \in {decimal_places_12(val.frac)}}} : TRUE

\* one iteration of the fractional-digit loop on f, a count of 2^-64:
\* f *= r; d = f.floor(); the digit pushed; f -= d. For the radices 2, 8 and
\* 16 the product and the difference are exact in an f64.
fraction_step(f, radix) ==
    CHOOSE step \in
        {LET di == IF Len(product) > LimbCount THEN product[LimbCount + 1] ELSE 0
         IN  [digit |-> HexDigitChar(di),
              f |-> IF Len(product) > LimbCount
                    THEN u128_of_limbs(SubSeq(product, 1, LimbCount))
                    ELSE product] :
            product \in {WideMulAdd(f, radix, 0)}} : TRUE

\* a loop that never leaves early
below_tolerance_never(f) == FALSE

\* f < 1e-12
below_tolerance(f) == u128_lt(frac_scaled(f), TOLERANCE)

\* frac_str after `left` more iterations of the loop at most
RECURSIVE fraction_digits(_, _, _)
fraction_digits(f, radix, left) ==
    IF left = 0 THEN <<>>
    ELSE CHOOSE digits \in
             {<<step.digit>>
              \o (IF below_tolerance(step.f) THEN <<>>
                  ELSE fraction_digits(step.f, radix, left - 1)) :
                 step \in {fraction_step(f, radix)}} : TRUE

\* int_str of format_float_in_radix
int_str_in_radix(int_u, radix) ==
    CASE radix = 2 -> format_radix(int_u, 2)
      [] radix = 8 -> format_radix(int_u, 8)
      [] radix = 16 -> format_radix_hex(int_u)
      [] OTHER -> format_radix(int_u, 10)

\* format!("{} (十进制)", s), the annotation spelled in ASCII
DecimalAnnotation == <<" ", "(", "d", "e", "c", "i", "m", "a", "l", ")">>

\* a join that leaves the sign out
join_parts_unsigned(neg, int_str, frac_str) ==
    IF frac_str = <<>> THEN int_str ELSE int_str \o <<".">> \o frac_str

\* the return value once frac_str is complete
join_parts(neg, int_str, frac_str) ==
    LET result == IF frac_str = <<>> THEN int_str
                  ELSE int_str \o <<".">> \o frac_str
    IN  IF neg THEN <<"-">> \o result ELSE result

\* format_float_in_radix before its loop: either it returns (ret is Some) or
\* it enters the loop with int_str and f
format_float_entry(val, radix, frac_digits) ==
    LET neg == val.n.neg
        int_u == val.n.mag
        int_str == int_str_in_radix(int_u, radix)
        frac == val.frac
    IN  IF ~is_finite(val) THEN [ret |-> Some(<<"N", "a", "N">>), int_str |-> <<>>]
        ELSE IF radix = 10 THEN [ret |-> Some(format_decimal_12(val)), int_str |-> <<>>]
        ELSE IF Len(int_u) > 8
        THEN [ret |-> Some(format_decimal_12(val) \o DecimalAnnotation), int_str |-> <<>>]
        ELSE IF frac_digits = 0 \/ frac = <<>>
        THEN [ret |-> Some(IF neg /\ (int_u # <<>> \/ frac = <<>>)
                           THEN <<"-">> \o int_str ELSE int_str),
              int_str |-> int_str]
        ELSE [ret |-> None, int_str |-> int_str]

format_float_in_radix(val, radix, frac_digits) ==
    LET entry == format_float_entry(val, radix, frac_digits)
    IN  IF entry.ret # None THEN entry.ret[1]
        ELSE join_parts(val.n.neg, entry.int_str,
                        fraction_digits(val.frac, radix, frac_digits))

\* the calculator page's FRACTION_DIGITS
FRACTION_DIGITS == 16

\* format_auto of the calculator page, which takes frac_digits
format_auto_digits(val, radix, frac_digits) ==
    IF is_finite(val) /\ is_near_integer(val)
    THEN format_value_in_radix(nearest_as_i128(val), radix)
    ELSE format_float_in_radix(val, radix, frac_digits)

\* format_auto of FrontendState: the same with 16 fractional digits
format_auto(val, radix) == format_auto_digits(val, radix, FRACTION_DIGITS)

\* ------------------------------------------------------------------------
\* Backend handlers (BackendWorker)
\* ------------------------------------------------------------------------
\* uN::from_str_radix / str::parse::<uN>: a leading '+' is accepted, every
\* other character must be a digit of the radix. (Overflow of the N bits is
\* beyond the lengths of the model's inputs.)
parse_unsigned(s, radix) ==
    CHOOSE res \in
        {IF x = <<>> THEN Err("cannot parse integer from empty string")
         ELSE IF \A k \in DOMAIN body :
                     /\ is_ascii_alphanumeric(body[k])
                     /\ DigitValue(to_ascii_uppercase(body[k])) < radix
              THEN Ok(from_str_radix(to_uppercase(body), radix))
              ELSE Err("invalid digit found in string") :
            x \in {s},
            body \in {IF Len(s) > 1 /\ Head(s) = "+" THEN Tail(s) ELSE s}} : TRUE

ErrEmptyInput == "input is empty"

handle_number_conversion(req) ==
    LET failed(e) == [kind |-> "NumberConversion", id |-> req.id,
                      binary |-> None, decimal |-> None, hexadecimal |-> None,
                      error |-> Some(e)]
        parsed(input) ==
            CASE req.conversion_type = "Binary" -> parse_unsigned(input, 2)
              [] req.conversion_type = "Decimal" -> parse_unsigned(input, 10)
              [] req.conversion_type = "Hexadecimal" -> parse_unsigned(input, 16)
        converted(input) ==
            CHOOSE res \in
                {IF number.ok
                 THEN [kind |-> "NumberConversion", id |-> req.id,
                       binary |-> Some(format_radix(u128_from(number.val), 2)),
                       decimal |-> Some(to_string_u(number.val)),
                       hexadecimal |-> Some(format_radix_hex(u128_from(number.val))),
                       error |-> None]
                 ELSE failed(number.err) :
                    number \in {parsed(input)}} : TRUE
    IN  CHOOSE res \in
            {IF input = <<>> THEN failed(ErrEmptyInput) ELSE converted(input) :
                input \in {to_uppercase(RemoveChar(RemoveChar(req.input, "_"), " "))}} : TRUE

\* the printable ASCII characters, 32 (' ') to 126 ('~'), in code order
AsciiPrintable ==
    <<" ", "!", "\"", "#", "$", "%", "&", "'", "(", ")", "*", "+", ",", "-",
      ".", "/">>
    \o DecDigits \o <<":", ";", "<", "=", ">", "?", "@">>
    \o UpperLetters \o <<"[", "\\", "]", "^", "_", "GRAVE">>
    \o LowerLetters \o <<"{", "|", "}", "~">>

\* `c as u8` for a printable ASCII character
AsciiCode(c) == 31 + IndexOf(AsciiPrintable, c)

\* format!("{:02X}", b)
Hex02(b) ==
    IF b < 16 THEN <<"0">> \o format_radix_hex(u128_from(b))
    ELSE format_radix_hex(u128_from(b))

RECURSIVE JoinWithSpace(_)
JoinWithSpace(parts) ==
    IF parts = <<>> THEN <<>>
    ELSE IF Len(parts) = 1 THEN parts[1]
    ELSE parts[1] \o <<" ">> \o JoinWithSpace(Tail(parts))

\* the loop over clean_hex.as_bytes().chunks(2) of HexToAscii
RECURSIVE HexChunksToAscii(_)
HexChunksToAscii(clean_hex) ==
    IF clean_hex = <<>> THEN <<>>
    ELSE LET byte == parse_unsigned(SubSeq(clean_hex, 1, 2), 16)
             rest == HexChunksToAscii(SubSeq(clean_hex, 3, Len(clean_hex)))
         IN  IF ~byte.ok THEN rest
             ELSE IF byte.val >= 32 /\ byte.val <= 126
                  THEN <<AsciiPrintable[byte.val - 31]>> \o rest
                  ELSE <<"[", "0", "x">> \o Hex02(byte.val) \o <<"]">> \o rest

handle_text_conversion(req) ==
    IF req.conversion_type = "AsciiToHex"
    THEN [kind |-> "TextConversion", id |-> req.id,
          output |-> JoinWithSpace([k \in DOMAIN req.input |->
                                       Hex02(AsciiCode(req.input[k]))]),
          error |-> None]
    ELSE LET clean_hex ==
                 to_uppercase(SelectSeq(req.input, LAMBDA c : c # " " /\ c # "_"))
         IN  IF clean_hex = <<>>
             THEN [kind |-> "TextConversion", id |-> req.id, output |-> <<>>,
                   error |-> Some(ErrEmptyInput)]
             ELSE IF Len(clean_hex) % 2 # 0
             THEN [kind |-> "TextConversion", id |-> req.id, output |-> <<>>,
                   error |-> Some("hex length must be even")]
             ELSE [kind |-> "TextConversion", id |-> req.id,
                   output |-> HexChunksToAscii(clean_hex), error |-> None]

\* str::parse::<f32> followed by to_bits, and f32::from_bits followed by
\* to_string, tabulated for the inputs of the model (1.5 = 0x3FC00000);
\* any other text of the model's inputs is not a float literal.
parse_f32_bits(s) ==
    IF s = <<"1", ".", "5">> THEN Ok(1069547520)
    ELSE Err("invalid float literal")

f32_bits_to_string(bits) ==
    IF bits = 1069547520 THEN <<"1", ".", "5">> ELSE <<"?">>

\* format!("{:08X}", bits)
handle_float_conversion(req) ==
    LET input == RemoveChar(RemoveChar(req.input, "_"), " ")
        failed(e) == [kind |-> "FloatConversion", id |-> req.id, output |-> <<>>,
                      analysis |-> None, error |-> Some(e)]
    IN  IF req.conversion_type = "F32ToHex"
        THEN LET bits == parse_f32_bits(input) IN
             IF bits.ok
             THEN [kind |-> "FloatConversion", id |-> req.id,
                   output |-> PadLeftZero(format_radix_hex(u128_from(bits.val)), 8),
                   analysis |-> None, error |-> None]
             ELSE failed(bits.err)
        ELSE IF Len(input) # 8 THEN failed("hex length must be 8")
             ELSE LET bits == parse_unsigned(to_uppercase(input), 16) IN
                  IF bits.ok
                  THEN [kind |-> "FloatConversion", id |-> req.id,
                        output |-> f32_bits_to_string(bits.val),
                        analysis |-> Some([bits |-> bits.val,
                                           sign |-> (bits.val \div 1073741824) \div 2,
                                           exponent |-> (bits.val \div 8388608) % 256,
                                           mantissa |-> bits.val % 8388608]),
                        error |-> None]
                  ELSE failed(bits.err)

is_ascii_hexdigit(c) ==
    is_ascii_digit(c) \/ to_ascii_uppercase(c) \in {"A", "B", "C", "D", "E", "F"}

\* the four bits of a hex digit, most significant first
NibbleBits(d) == <<(d \div 8) % 2 = 1, (d \div 4) % 2 = 1, (d \div 2) % 2 = 1, d % 2 = 1>>

RECURSIVE HexToBits(_)
HexToBits(clean_hex) ==
    IF clean_hex = <<>> THEN <<>>
    ELSE NibbleBits(DigitValue(Head(clean_hex))) \o HexToBits(Tail(clean_hex))

BitAt(bits, k) == IF k <= Len(bits) /\ bits[k] THEN 1 ELSE 0

\* one hex digit per group of four bits; an incomplete last group is padded
\* with zero bits on the right
bits_to_hex(bits) ==
    [n \in 1..((Len(bits) + 3) \div 4) |->
        HexDigitChar(8 * BitAt(bits, 4 * n - 3) + 4 * BitAt(bits, 4 * n - 2)
                     + 2 * BitAt(bits, 4 * n - 1) + BitAt(bits, 4 * n))]

handle_bit_viewer(req) ==
    CASE req.operation.op = "ParseHex" ->
            LET hex_input == IF req.hex_input = None THEN <<>> ELSE req.hex_input[1]
                clean_hex == to_uppercase(SelectSeq(hex_input, is_ascii_hexdigit))
            IN  IF clean_hex = <<>>
                THEN [kind |-> "BitViewer", id |-> req.id, hex_input |-> <<>>,
                      binary_bits |-> <<>>, error |-> Some(ErrEmptyInput)]
                ELSE [kind |-> "BitViewer", id |-> req.id, hex_input |-> clean_hex,
                      binary_bits |-> HexToBits(clean_hex), error |-> None]
      [] req.operation.op = "ToggleBit" ->
            LET bits0 == IF req.current_bits = None THEN <<>> ELSE req.current_bits[1]
                index == req.operation.index
                bits == IF index < Len(bits0)
                        THEN [bits0 EXCEPT ![index + 1] = ~bits0[index + 1]]
                        ELSE bits0
            IN  [kind |-> "BitViewer", id |-> req.id, hex_input |-> bits_to_hex(bits),
                 binary_bits |-> bits, error |-> None]
      [] req.operation.op = "InvertAll" ->
            LET bits0 == IF req.current_bits = None THEN <<>> ELSE req.current_bits[1]
                bits == [k \in DOMAIN bits0 |-> ~bits0[k]]
            IN  [kind |-> "BitViewer", id |-> req.id, hex_input |-> bits_to_hex(bits),
                 binary_bits |-> bits, error |-> None]

ErrNotFinite == "computation result is not finite"

\* a handler that passes on whatever number the evaluator returned
handle_calculator_unfiltered(req, evaluated) ==
    IF evaluated.ok
    THEN [kind |-> "Calculator", id |-> req.id, value |-> Some(evaluated.val),
          error |-> None, radix |-> req.radix,
          original_input |-> req.original_input,
          decimal_expr |-> req.decimal_expr]
    ELSE [kind |-> "Calculator", id |-> req.id, value |-> None,
          error |-> Some(evaluated.err), radix |-> req.radix,
          original_input |-> req.original_input,
          decimal_expr |-> req.decimal_expr]

\* `evaluated` is what calc_engine::evaluate(&req.decimal_expr) returned: the
\* evaluator is an external process, so its result is an input of the handler
handle_calculator(req, evaluated) ==
    IF evaluated.ok
    THEN IF ~is_finite(evaluated.val)
         THEN [kind |-> "Calculator", id |-> req.id, value |-> None,
               error |-> Some(ErrNotFinite), radix |-> req.radix,
               original_input |-> req.original_input,
               decimal_expr |-> req.decimal_expr]
         ELSE [kind |-> "Calculator", id |-> req.id, value |-> Some(evaluated.val),
               error |-> None, radix |-> req.radix,
               original_input |-> req.original_input,
               decimal_expr |-> req.decimal_expr]
    ELSE [kind |-> "Calculator", id |-> req.id, value |-> None,
          error |-> Some(evaluated.err), radix |-> req.radix,
          original_input |-> req.original_input,
          decimal_expr |-> req.decimal_expr]

\* a dispatch that answers bit viewer requests like Shutdown, with nothing
process_request_bit_viewer_unanswered(request, evaluated) ==
    CASE request.kind = "NumberConversion" -> Some(handle_number_conversion(request))
      [] request.kind = "TextConversion" -> Some(handle_text_conversion(request))
      [] request.kind = "FloatConversion" -> Some(handle_float_conversion(request))
      [] request.kind = "Calculator" -> Some(handle_calculator(request, evaluated))
      [] OTHER -> None

\* Option<BackendResponse>
process_request(request, evaluated) ==
    CASE request.kind = "NumberConversion" -> Some(handle_number_conversion(request))
      [] request.kind = "TextConversion" -> Some(handle_text_conversion(request))
      [] request.kind = "FloatConversion" -> Some(handle_float_conversion(request))
      [] request.kind = "BitViewer" -> Some(handle_bit_viewer(request))
      [] request.kind = "Calculator" -> Some(handle_calculator(request, evaluated))
      [] request.kind = "Shutdown" -> None

\* ------------------------------------------------------------------------
\* Bounds and input domains
\* ------------------------------------------------------------------------
\* number of request ids handed out in a run of Spec and of SpecPages
MaxRequests == 2

\* number of requests of the sequential run SpecHistory
SeqRequests == 250

\* number of explicit Backend::shutdown calls (the one made by Drop is extra)
MaxShutdownCalls == 1

\* calls of next_id in a run of the id counter, and requests in flight at once
MaxIdCalls == 16

MaxInFlight == 3

\* the u64 values given to the formatter, limb by limb: small values, values
\* around 2^53 (top limb 31, 32), and values up to 2^64 - 1
FormatLowLimbs == {0, 1, 2, 3, LimbBase - 1}

FormatMidLimbs == {0, LimbBase - 1}

FormatTopLimbs == {0, 31, 32, 33, LimbBase - 1}

FormatInputs ==
    {u128_of_limbs(<<a, b, c, d>>) :
        a \in FormatLowLimbs, b \in FormatMidLimbs, c \in FormatMidLimbs,
        d \in FormatTopLimbs}

\* the magnitudes given to the formatter: integer part and fractional part
\* (a count of 2^-64) of f64 values
FloatMagnitudes == {
    [mag |-> <<>>, frac |-> <<>>],   \* 0
    [mag |-> <<1>>, frac |-> <<>>],   \* 1
    [mag |-> <<3>>, frac |-> <<>>],   \* 3
    [mag |-> <<255>>, frac |-> <<>>],   \* 255
    [mag |-> <<>>, frac |-> <<0, 0, 0, 32768>>],   \* 1/2
    [mag |-> <<>>, frac |-> <<0, 0, 0, 49152>>],   \* 3/4
    [mag |-> <<>>, frac |-> <<21504, 21845, 21845, 21845>>],   \* 1/3
    [mag |-> <<>>, frac |-> <<39424, 39321, 39321, 6553>>],   \* 0.1
    [mag |-> <<1>>, frac |-> <<0, 0, 0, 32768>>],   \* 1 1/2
    [mag |-> <<7>>, frac |-> <<0, 0, 0, 8192>>],   \* 7 1/8
    [mag |-> <<255>>, frac |-> <<0, 0, 0, 32768>>],   \* 255 1/2
    [mag |-> <<16383>>, frac |-> <<0, 0, 0, 16384>>],   \* 16383 1/4
    [mag |-> <<>>, frac |-> <<1>>],   \* 2^-64
    [mag |-> <<>>, frac |-> <<0, 128>>],   \* 2^-41, below 1e-12
    [mag |-> <<>>, frac |-> <<0, 512>>],   \* 2^-39, above 1e-12
    [mag |-> <<>>, frac |-> <<0, 0, 32768>>],   \* 2^-17
    [mag |-> <<>>, frac |-> <<0, 0, 0, 8>>],   \* 2^-13
    [mag |-> <<>>, frac |-> <<0, 65408, 65535, 65535>>],   \* 1 - 2^-41
    [mag |-> <<>>, frac |-> <<0, 65024, 65535, 65535>>],   \* 1 - 2^-39
    [mag |-> <<4>>, frac |-> <<0, 65024, 65535, 65535>>],   \* 5 - 2^-39
    [mag |-> <<1000>>, frac |-> <<0, 0, 4>>],   \* 1000 + 2^-30, within 1e-12 * 1000
    [mag |-> <<1000>>, frac |-> <<0, 0, 8>>]    \* 1000 + 2^-29, beyond 1e-12 * 1000
    }

\* the finite f64 values given to the formatter, both signs of each magnitude
FloatInputs ==
    {[class |-> "finite", n |-> [neg |-> neg, mag |-> m.mag], frac |-> m.frac] :
        neg \in BOOLEAN, m \in FloatMagnitudes}

\* the frac_digits given to the formatter: none, the 8 of a short rendering,
\* and the page's FRACTION_DIGITS
FracDigitChoices == {0, 8, FRACTION_DIGITS}

\* the radices the normalizer and the formatter are specified for
RadixRange == 2..36

\* characters given to the digit classifier: decimal digits and letters of
\* both cases, from the lowest to the highest digit value
RadixChars == {"0", "1", "2", "9", "a", "f", "g", "z", "A", "F", "G", "Z"}

\* integer values given to the formatter in each radix of the range
RadixValues == {F64(5), F64(35), F64(255)}

\* length of the generated expressions given to the normalizer
MaxExprLen == 3

ScanRadices == {2, 8, 10, 16}

ScanAlphabet == {"1", "7", "a", "x", "_", "(", ")", "-", " "}

\* the worked examples of the calculator and expressions around them
ScanExamples ==
    { <<"2", "(", "3", "+", "1", ")">>, <<"2", "p", "i">>,
      <<"s", "i", "n", "(", "0", ")">>, <<"S", "i", "n", "(", "1", ")">>,
      <<"x", "(", "1", ")">>, <<"(", "1", ")", "(", "1", ")">>,
      <<"p", "i", " ", "x">>, <<"c", "o", "s", "(", "0", ")">>,
      <<"A", "+", "B">>, <<"F", "F">>, <<"f", "_", "F">>,
      <<"1", "0", "1", "0", "+", "1", "1", "1", "1">>,
      <<"0", "1", "0">>, <<"x", "1", "0">>, <<"1", ".", "5">>,
      <<"1", ".", "2", ".", "3">>,
      <<"-", "5", "+", "3">>, <<"3", "-", "5">>, <<"1", ",", "-", "1">>,
      <<"1", "+", "-", "1">>, <<"1", "+", "-", "x">>,
      <<"-", "1", ".", "5">>, <<"-", ".", "5">>, <<"(", "-", "7", ")">>,
      <<"G">>, <<"1", "G">>, <<"9">>, <<"_", "x", "1">>, <<"p", "_", "1">> }

ScanExprs ==
    ScanExamples \cup UNION {[1..n -> ScanAlphabet] : n \in 0..MaxExprLen}

\* const MAX_HISTORY: usize = 200
MAX_HISTORY == 200

\* the entries of the radix selector (2, 8, 10, 16) that the runs click
Radices == {10, 16}

\* texts typed into the calculator: empty, a number with a trailing blank,
\* and a lone minus sign, which does not normalize
CalcInputs == {<<>>, <<"1", "2", " ">>, <<"-">>}

\* what the external evaluator may return for an expression (7 reads the same
\* in radix 10 and 16, 12 does not)
EvalOutcomes ==
    {Ok(F64(7)), Ok(F64(12)), Ok(NaN), Ok(Infinity), Ok(NegInfinity),
     Err("evaluation failed")}

NumberFields == {"binary_field", "decimal_field", "hex_field"}

FloatFields == {"f32_to_hex", "hex_to_f32"}

TextFields == {"ascii_to_hex", "hex_to_ascii"}

NumberFieldInputs(f) ==
    CASE f = "binary_field" -> {<<"1", "0", "1">>}
      [] f = "decimal_field" -> {<<"2", "5", "5">>}
      [] f = "hex_field" -> {<<"F", "G">>}

FloatFieldInputs(f) ==
    CASE f = "f32_to_hex" -> {<<"1", ".", "5">>}
      [] f = "hex_to_f32" -> {<<"3", "F", "C">>}

TextFieldInputs(f) ==
    CASE f = "ascii_to_hex" -> {<<"H", "i">>}
      [] f = "hex_to_ascii" -> {<<"4", "8", "6">>}

BitHexInputs == {<<"A">>}

\* the bit index offered to request_bit_toggle (the most significant bit)
BitIndices == {0}

\* ------------------------------------------------------------------------
\* State
\* ------------------------------------------------------------------------
VARIABLES
    number_conversion,  \* FrontendState.number_conversion
    float_conversion,   \* FrontendState.float_conversion
    text_conversion,    \* FrontendState.text_conversion
    bit_viewer,         \* FrontendState.bit_viewer
    calculator,         \* FrontendState.calculator
    next_id,            \* Backend.next_id
    request_ch,         \* buffer of the request channel (UI -> worker)
    response_ch,        \* buffer of the response channel (worker -> UI)
    worker,             \* "Running" while the worker thread is in its loop
    handle,             \* the Backend handle: "Alive", "Dropping", "Dropped"
    shutdown_calls,     \* explicit Backend::shutdown calls made so far
    issued,             \* history: issued[id + 1] is request id and the field it is for
    rejected,           \* history: ids whose send_request returned false
    handled,            \* history: <<id, "applied" | "dropped">> per polled response
    last_eval,          \* history: the evaluator's latest result, until its response is polled
    scan,               \* convert_expr_from_base: chars, radix and the locals of its loop
    fmt                 \* format_auto: val, radix, frac_digits and the locals of the digit loop

frontend == <<number_conversion, float_conversion, text_conversion, bit_viewer,
              calculator>>

backend_vars == <<next_id, request_ch, response_ch, worker, handle, shutdown_calls>>

history_vars == <<issued, rejected, handled, last_eval>>

vars == <<frontend, backend_vars, history_vars, scan, fmt>>

NumberConversionFieldDefault ==
    [input |-> <<>>, binary |-> <<>>, decimal |-> <<>>, hexadecimal |-> <<>>,
     error |-> None, pending_id |-> None]

FloatConversionFieldDefault ==
    [input |-> <<>>, output |-> <<>>, analysis |-> None, error |-> None,
     pending_id |-> None]

TextConversionFieldDefault ==
    [input |-> <<>>, output |-> <<>>, error |-> None, pending_id |-> None]

BitViewerStateDefault ==
    [hex_input |-> <<>>, binary_bits |-> <<>>, error |-> None, pending_id |-> None]

CalculatorStateDefault ==
    [radix |-> 10, input |-> <<>>, output |-> <<>>, last_error |-> None,
     last_value |-> None, history |-> <<>>, pending_id |-> None]

\* convert_expr_from_base on entry: out empty, i at the first character,
\* last_kind Start, last_ident None, nothing returned yet
ScanStart(expr, radix) ==
    [chars |-> expr, radix |-> radix, i |-> 1, out |-> <<>>,
     last_kind |-> "Start", last_ident |-> None, result |-> None]

\* no call of convert_expr_from_base is being followed
ScanIdle == ScanStart(<<>>, 10)

\* format_auto on entry: nothing computed yet
FormatStart(val, radix, frac_digits) ==
    [val |-> val, radix |-> radix, frac_digits |-> frac_digits, pc |-> "call",
     int_str |-> <<>>, f |-> <<>>, frac_str |-> <<>>, result |-> None]

\* no call of format_auto is being followed
FormatIdle == FormatStart(F64(0), 10, FRACTION_DIGITS)

Init ==
    /\ number_conversion = [f \in NumberFields |-> NumberConversionFieldDefault]
    /\ float_conversion = [f \in FloatFields |-> FloatConversionFieldDefault]
    /\ text_conversion = [f \in TextFields |-> TextConversionFieldDefault]
    /\ bit_viewer = BitViewerStateDefault
    /\ calculator = CalculatorStateDefault
    /\ next_id = 0
    /\ request_ch = <<>>
    /\ response_ch = <<>>
    /\ worker = "Running"
    /\ handle = "Alive"
    /\ shutdown_calls = 0
    /\ issued = <<>>
    /\ rejected = {}
    /\ handled = {}
    /\ last_eval = None
    /\ scan = ScanIdle
    /\ fmt = FormatIdle

\* ------------------------------------------------------------------------
\* FrontendState::handle_response
\* ------------------------------------------------------------------------
unwrap_or_default(opt) == IF opt = None THEN <<>> ELSE opt[1]

\* a comparison that only asks whether the slot is occupied
slot_occupied(pending_id, id) == pending_id # None

\* `<slot>.pending_id == Some(id)`
slot_matches(pending_id, id) == pending_id = Some(id)

apply_number_conversion(nc, resp) ==
    LET updated(f) ==
            [nc EXCEPT ![f] = [@ EXCEPT !.pending_id = None,
                                        !.error = resp.error,
                                        !.binary = unwrap_or_default(resp.binary),
                                        !.decimal = unwrap_or_default(resp.decimal),
                                        !.hexadecimal =
                                            unwrap_or_default(resp.hexadecimal)]]
    IN  IF slot_matches(nc.binary_field.pending_id, resp.id)
        THEN updated("binary_field")
        ELSE IF slot_matches(nc.decimal_field.pending_id, resp.id)
        THEN updated("decimal_field")
        ELSE IF slot_matches(nc.hex_field.pending_id, resp.id)
        THEN updated("hex_field")
        ELSE nc

\* a text update that shows the response in both fields of the page
apply_text_conversion_both(tc, resp) ==
    IF \E f \in DOMAIN tc : slot_matches(tc[f].pending_id, resp.id)
    THEN [f \in DOMAIN tc |->
             [tc[f] EXCEPT !.pending_id =
                               IF slot_matches(@, resp.id) THEN None ELSE @,
                           !.output = resp.output,
                           !.error = resp.error]]
    ELSE tc

apply_text_conversion(tc, resp) ==
    LET updated(f) ==
            [tc EXCEPT ![f] = [@ EXCEPT !.pending_id = None,
                                        !.output = resp.output,
                                        !.error = resp.error]]
    IN  IF slot_matches(tc.ascii_to_hex.pending_id, resp.id)
        THEN updated("ascii_to_hex")
        ELSE IF slot_matches(tc.hex_to_ascii.pending_id, resp.id)
        THEN updated("hex_to_ascii")
        ELSE tc

apply_float_conversion(fc, resp) ==
    IF slot_matches(fc.f32_to_hex.pending_id, resp.id)
    THEN [fc EXCEPT !.f32_to_hex = [@ EXCEPT !.pending_id = None,
                                             !.output = resp.output,
                                             !.error = resp.error]]
    ELSE IF slot_matches(fc.hex_to_f32.pending_id, resp.id)
    THEN [fc EXCEPT !.hex_to_f32 = [@ EXCEPT !.pending_id = None,
                                             !.output = resp.output,
                                             !.analysis = resp.analysis,
                                             !.error = resp.error]]
    ELSE fc

\* the bit viewer updated without the comparison of ids
apply_bit_viewer_unchecked(bv, resp) ==
    [bv EXCEPT !.pending_id = None,
               !.hex_input = resp.hex_input,
               !.binary_bits = resp.binary_bits,
               !.error = resp.error]

apply_bit_viewer(bv, resp) ==
    IF slot_matches(bv.pending_id, resp.id)
    THEN [bv EXCEPT !.pending_id = None,
                    !.hex_input = resp.hex_input,
                    !.binary_bits = resp.binary_bits,
                    !.error = resp.error]
    ELSE bv

\* while history.len() > MAX_HISTORY { history.pop_front(); }
RECURSIVE evict_front(_)
evict_front(history) ==
    IF Len(history) > MAX_HISTORY THEN evict_front(Tail(history)) ELSE history

\* a push that never evicts
push_history_unbounded(history, entry) == Append(history, entry)

push_history(history, entry) == evict_front(Append(history, entry))

\* an entry that records the normalized expression as the text typed
history_entry_normalized_input(resp, output) ==
    [radix |-> resp.radix, input |-> resp.decimal_expr,
     decimal_expr |-> resp.decimal_expr, output |-> output, error |-> None]

history_entry(resp, output) ==
    [radix |-> resp.radix, input |-> resp.original_input,
     decimal_expr |-> resp.decimal_expr, output |-> output, error |-> None]

\* the calculator update whose error branch forgets to clear the slot
apply_calculator_error_keeps_pending(calc, resp) ==
    IF slot_matches(calc.pending_id, resp.id)
    THEN IF resp.error # None
         THEN [calc EXCEPT !.last_error = Some(resp.error[1]),
                           !.last_value = None]
         ELSE LET output == format_auto(resp.value[1], calc.radix) IN
              [calc EXCEPT !.pending_id = None,
                           !.last_value = Some(resp.value[1]),
                           !.last_error = None,
                           !.output = output,
                           !.history = push_history(@, history_entry(resp, output))]
    ELSE calc

apply_calculator(calc, resp) ==
    IF slot_matches(calc.pending_id, resp.id)
    THEN IF resp.error # None
         THEN [calc EXCEPT !.pending_id = None,
                           !.last_error = Some(resp.error[1]),
                           !.last_value = None]
         ELSE IF resp.value # None
         THEN LET output == format_auto(resp.value[1], calc.radix) IN
              [calc EXCEPT !.pending_id = None,
                           !.last_value = Some(resp.value[1]),
                           !.last_error = None,
                           !.output = output,
                           !.history = push_history(@, history_entry(resp, output))]
         ELSE [calc EXCEPT !.pending_id = None]
    ELSE calc

\* the pending slots a response of the given kind is compared with
slots_of_kind(kind) ==
    CASE kind = "NumberConversion" ->
            {number_conversion[f].pending_id : f \in NumberFields}
      [] kind = "TextConversion" -> {text_conversion[f].pending_id : f \in TextFields}
      [] kind = "FloatConversion" ->
            {float_conversion[f].pending_id : f \in FloatFields}
      [] kind = "BitViewer" -> {bit_viewer.pending_id}
      [] kind = "Calculator" -> {calculator.pending_id}

handle_response(response) ==
    /\ number_conversion' =
           IF response.kind = "NumberConversion"
           THEN apply_number_conversion(number_conversion, response)
           ELSE number_conversion
    /\ text_conversion' =
           IF response.kind = "TextConversion"
           THEN apply_text_conversion(text_conversion, response)
           ELSE text_conversion
    /\ float_conversion' =
           IF response.kind = "FloatConversion"
           THEN apply_float_conversion(float_conversion, response)
           ELSE float_conversion
    /\ bit_viewer' =
           IF response.kind = "BitViewer"
           THEN apply_bit_viewer(bit_viewer, response)
           ELSE bit_viewer
    /\ calculator' =
           IF response.kind = "Calculator"
           THEN apply_calculator(calculator, response)
           ELSE calculator
    /\ handled' = handled \cup
           {<<response.id,
              IF \E p \in slots_of_kind(response.kind) : slot_matches(p, response.id)
              THEN "applied" ELSE "dropped">>}

\* one iteration of the loop of poll_responses: try_recv_response returned
\* Some(response). (The loop runs at the start of every frame, before the page
\* is rendered; the worker fills the channel at its own pace, so a response may
\* be polled before or after any later event of the page.)
PollResponse ==
    /\ handle = "Alive"
    /\ response_ch # <<>>
    /\ handle_response(Head(response_ch))
    /\ response_ch' = Tail(response_ch)
    /\ last_eval' = IF last_eval # None /\ last_eval[1].id = Head(response_ch).id
                    THEN None ELSE last_eval
    /\ UNCHANGED <<scan, fmt, next_id, request_ch, worker, handle, shutdown_calls,
                   issued, rejected>>

\* ------------------------------------------------------------------------
\* Backend handle: next_id, send_request, shutdown, Drop
\* ------------------------------------------------------------------------
\* Backend::next_id returns the current value and stores this one. (The
\* wrapping at 2^64 is far beyond MaxRequests; the counter at its full width
\* is wrapping_add_1 below.)
next_id_after(n) == n + 1

U64(l1, l2, l3, l4) == <<l1, l2, l3, l4>>

U64_ZERO == U64(0, 0, 0, 0)

U64_MAX == U64(LimbBase - 1, LimbBase - 1, LimbBase - 1, LimbBase - 1)

\* add one at limb k, carrying upwards; the carry out of the last limb is lost
RECURSIVE limb_increment(_, _)
limb_increment(x, k) ==
    IF k > LimbCount THEN x
    ELSE IF x[k] = LimbBase - 1 THEN limb_increment([x EXCEPT ![k] = 0], k + 1)
    ELSE [x EXCEPT ![k] = x[k] + 1]

\* an increment that stops at u64::MAX instead of wrapping
saturating_add_1(x) == IF x = U64_MAX THEN x ELSE limb_increment(x, 1)

\* u64::wrapping_add(1)
wrapping_add_1(x) == limb_increment(x, 1)

\* Sender::send succeeds exactly while the receiver exists, i.e. while the
\* worker thread has not left its loop
send_request_ok == worker = "Running"

request_ch_after_send(request) ==
    IF send_request_ok THEN Append(request_ch, request) ELSE request_ch

\* next_id() followed by send_request(request), as every request_* method
\* does; `field` names the slot the id is recorded in
IssueRequest(field, request) ==
    /\ next_id' = next_id_after(next_id)
    /\ request_ch' = request_ch_after_send(request)
    /\ issued' = Append(issued, [field |-> field, request |-> request])
    /\ rejected' = IF send_request_ok THEN rejected ELSE rejected \cup {request.id}
    /\ UNCHANGED <<scan, fmt, response_ch, worker, handle, shutdown_calls, handled,
                   last_eval>>

\* a widget of a page reports an event while the page is rendered
UiEvent == handle = "Alive"

NoRequest == UNCHANGED <<scan, fmt, backend_vars, history_vars>>

\* ------------------------------------------------------------------------
\* Number, float and text conversion pages
\* ------------------------------------------------------------------------
NumberConversionTypeOf(f) ==
    CASE f = "binary_field" -> "Binary"
      [] f = "decimal_field" -> "Decimal"
      [] f = "hex_field" -> "Hexadecimal"

\* the text of field f changed to input: request_binary_conversion,
\* request_decimal_conversion or request_hex_conversion
request_number_conversion(f, input) ==
    /\ UiEvent
    /\ number_conversion' =
           [number_conversion EXCEPT ![f] = [@ EXCEPT !.input = input,
                                                      !.pending_id = Some(next_id),
                                                      !.error = None]]
    /\ IssueRequest(f, [kind |-> "NumberConversion", id |-> next_id,
                        conversion_type |-> NumberConversionTypeOf(f),
                        input |-> input])
    /\ UNCHANGED <<float_conversion, text_conversion, bit_viewer, calculator>>

request_float_conversion(f, input) ==
    /\ UiEvent
    /\ float_conversion' =
           [float_conversion EXCEPT ![f] = [@ EXCEPT !.input = input,
                                                     !.pending_id = Some(next_id),
                                                     !.error = None]]
    /\ IssueRequest(f, [kind |-> "FloatConversion", id |-> next_id,
                        conversion_type |->
                            IF f = "f32_to_hex" THEN "F32ToHex" ELSE "HexToF32",
                        input |-> input])
    /\ UNCHANGED <<number_conversion, text_conversion, bit_viewer, calculator>>

request_text_conversion(f, input) ==
    /\ UiEvent
    /\ text_conversion' =
           [text_conversion EXCEPT ![f] = [@ EXCEPT !.input = input,
                                                    !.pending_id = Some(next_id),
                                                    !.error = None]]
    /\ IssueRequest(f, [kind |-> "TextConversion", id |-> next_id,
                        conversion_type |->
                            IF f = "ascii_to_hex" THEN "AsciiToHex" ELSE "HexToAscii",
                        input |-> input])
    /\ UNCHANGED <<number_conversion, float_conversion, bit_viewer, calculator>>

\* the "clear all" button of the number conversion page
ClearAllNumber ==
    /\ UiEvent
    /\ number_conversion' = [f \in NumberFields |-> NumberConversionFieldDefault]
    /\ float_conversion' = [f \in FloatFields |-> FloatConversionFieldDefault]
    /\ UNCHANGED <<text_conversion, bit_viewer, calculator>>
    /\ NoRequest

\* the "clear all" button of the text conversion page
ClearAllText ==
    /\ UiEvent
    /\ text_conversion' = [f \in TextFields |-> TextConversionFieldDefault]
    /\ UNCHANGED <<number_conversion, float_conversion, bit_viewer, calculator>>
    /\ NoRequest

\* ------------------------------------------------------------------------
\* Bit viewer requests
\* ------------------------------------------------------------------------
request_bit_viewer_parse(hex_input) ==
    /\ UiEvent
    /\ bit_viewer' = [bit_viewer EXCEPT !.hex_input = hex_input,
                                        !.pending_id = Some(next_id),
                                        !.error = None]
    /\ IssueRequest("bit_viewer",
                    [kind |-> "BitViewer", id |-> next_id,
                     operation |-> [op |-> "ParseHex"],
                     hex_input |-> Some(hex_input), current_bits |-> None])
    /\ UNCHANGED <<number_conversion, float_conversion, text_conversion, calculator>>

request_bit_toggle(index) ==
    /\ UiEvent
    /\ bit_viewer' = [bit_viewer EXCEPT !.pending_id = Some(next_id)]
    /\ IssueRequest("bit_viewer",
                    [kind |-> "BitViewer", id |-> next_id,
                     operation |-> [op |-> "ToggleBit", index |-> index],
                     hex_input |-> None,
                     current_bits |-> Some(bit_viewer.binary_bits)])
    /\ UNCHANGED <<number_conversion, float_conversion, text_conversion, calculator>>

request_bit_invert_all ==
    /\ UiEvent
    /\ bit_viewer' = [bit_viewer EXCEPT !.pending_id = Some(next_id)]
    /\ IssueRequest("bit_viewer",
                    [kind |-> "BitViewer", id |-> next_id,
                     operation |-> [op |-> "InvertAll"],
                     hex_input |-> None,
                     current_bits |-> Some(bit_viewer.binary_bits)])
    /\ UNCHANGED <<number_conversion, float_conversion, text_conversion, calculator>>

\* ------------------------------------------------------------------------
\* Calculator page
\* ------------------------------------------------------------------------
\* FrontendState::request_calculator_eval on the calculator state calc
\* a request that leaves the slot alone while an earlier id is awaited
request_calculator_eval_keeps_pending(calc, decimal_expr, radix, original_input) ==
    /\ calculator' = [calc EXCEPT !.pending_id = IF calc.pending_id = None
                                                  THEN Some(next_id)
                                                  ELSE calc.pending_id,
                                   !.last_error = None]
    /\ IssueRequest("calculator",
                    [kind |-> "Calculator", id |-> next_id,
                     decimal_expr |-> decimal_expr, radix |-> radix,
                     original_input |-> original_input])

request_calculator_eval(calc, decimal_expr, radix, original_input) ==
    /\ calculator' = [calc EXCEPT !.pending_id = Some(next_id), !.last_error = None]
    /\ IssueRequest("calculator",
                    [kind |-> "Calculator", id |-> next_id,
                     decimal_expr |-> decimal_expr, radix |-> radix,
                     original_input |-> original_input])

\* the calculator after compute found the trimmed input empty
compute_empty(calc) ==
    [calc EXCEPT !.last_error = None, !.last_value = None, !.output = <<>>]

\* a failure branch that also clears the output, as the empty branch does
compute_normalize_failed_clears_output(calc, e) ==
    [calc EXCEPT !.last_error = Some(e), !.last_value = None, !.output = <<>>]

\* the calculator after compute failed to normalize the input
compute_normalize_failed(calc, e) ==
    [calc EXCEPT !.last_error = Some(e), !.last_value = None]

\* a compute that sends the trimmed text without normalizing it
compute_unvalidated(calc) ==
    LET expr == Trim(calc.input)
    IN  IF expr = <<>>
        THEN calculator' = compute_empty(calc) /\ NoRequest
        ELSE request_calculator_eval(calc, expr, calc.radix, expr)

\* compute(frontend), run on the calculator state calc the widget left
compute(calc) ==
    LET expr == Trim(calc.input)
        converted == convert_expr_from_base(expr, calc.radix)
    IN  IF expr = <<>>
        THEN calculator' = compute_empty(calc) /\ NoRequest
        ELSE IF converted.ok
        THEN request_calculator_eval(calc, converted.val, calc.radix, expr)
        ELSE calculator' = compute_normalize_failed(calc, converted.err) /\ NoRequest

\* the text of the input box changed
EditCalculatorInput(input) ==
    /\ UiEvent
    /\ input # calculator.input
    /\ compute([calculator EXCEPT !.input = input])
    /\ UNCHANGED <<number_conversion, float_conversion, text_conversion, bit_viewer>>

\* an entry of the radix selector was clicked
SelectRadix(r) ==
    /\ UiEvent
    /\ compute([calculator EXCEPT !.radix = r])
    /\ UNCHANGED <<number_conversion, float_conversion, text_conversion, bit_viewer>>

\* the "reuse" button of the k-th history entry
ReuseHistoryEntry(k) ==
    /\ UiEvent
    /\ k \in DOMAIN calculator.history
    /\ calculator' = [calculator EXCEPT !.radix = calculator.history[k].radix,
                                        !.input = calculator.history[k].input,
                                        !.output = <<>>,
                                        !.last_error = None]
    /\ UNCHANGED <<number_conversion, float_conversion, text_conversion, bit_viewer>>
    /\ NoRequest

\* the "clear history" button
ClearHistory ==
    /\ UiEvent
    /\ calculator.history # <<>>
    /\ calculator' = [calculator EXCEPT !.history = <<>>]
    /\ UNCHANGED <<number_conversion, float_conversion, text_conversion, bit_viewer>>
    /\ NoRequest

\* ------------------------------------------------------------------------
\* Worker thread and Backend handle
\* ------------------------------------------------------------------------
\* the evaluator is called for calculator requests only
EvaluatorResults(request) ==
    IF request.kind = "Calculator" THEN EvalOutcomes ELSE {Ok(F64(0))}

\* a send that succeeds whether or not anyone can receive
response_send_never_fails == FALSE

\* response_tx.send(response).is_err(): the receiver is gone with the handle
response_send_fails == handle = "Dropped"

\* one iteration of the worker loop: recv returned Ok(request)
WorkerStep ==
    /\ worker = "Running"
    /\ request_ch # <<>>
    /\ LET request == Head(request_ch) IN
       \E evaluated \in EvaluatorResults(request) :
          LET response == process_request(request, evaluated) IN
          /\ IF request.kind = "Shutdown" \/ response_send_fails
             THEN \* break: the thread ends, both of its channel ends are dropped
                  /\ worker' = "Stopped"
                  /\ request_ch' = <<>>
                  /\ response_ch' = response_ch
             ELSE /\ worker' = worker
                  /\ request_ch' = Tail(request_ch)
                  /\ response_ch' = IF response = None THEN response_ch
                                    ELSE Append(response_ch, response[1])
          /\ last_eval' = IF request.kind = "Calculator"
                          THEN Some([id |-> request.id, evaluated |-> evaluated])
                          ELSE last_eval
    /\ UNCHANGED <<scan, fmt, frontend, next_id, handle, shutdown_calls, issued,
                   rejected, handled>>

\* (recv never returns Err: Drop for Backend sends Shutdown before the sender
\* is dropped, so the loop always ends at one of the two breaks above.)
shutdown_message == [kind |-> "Shutdown"]

\* Backend::shutdown called on the live handle (a public method taking &self)
Shutdown ==
    /\ UiEvent
    /\ shutdown_calls < MaxShutdownCalls
    /\ shutdown_calls' = shutdown_calls + 1
    /\ request_ch' = request_ch_after_send(shutdown_message)
    /\ UNCHANGED <<scan, fmt, frontend, next_id, response_ch, worker, handle,
                   history_vars>>

\* the FrontendState is dropped: its page states are dropped first (fields are
\* dropped in declaration order, `backend` is the last one) and the history
\* variables about their slots end with them; then Drop for Backend calls
\* shutdown ...
DropBackend ==
    /\ handle = "Alive"
    /\ handle' = "Dropping"
    /\ number_conversion' = [f \in NumberFields |-> NumberConversionFieldDefault]
    /\ float_conversion' = [f \in FloatFields |-> FloatConversionFieldDefault]
    /\ text_conversion' = [f \in TextFields |-> TextConversionFieldDefault]
    /\ bit_viewer' = BitViewerStateDefault
    /\ calculator' = CalculatorStateDefault
    /\ issued' = <<>>
    /\ rejected' = {}
    /\ handled' = {}
    /\ last_eval' = None
    /\ request_ch' = request_ch_after_send(shutdown_message)
    /\ UNCHANGED <<scan, fmt, next_id, response_ch, worker, shutdown_calls>>

\* ... and then the fields are dropped: the sender of the request channel and
\* the receiver of the response channel with what it still buffers
DropChannels ==
    /\ handle = "Dropping"
    /\ handle' = "Dropped"
    /\ response_ch' = <<>>
    /\ UNCHANGED <<scan, fmt, frontend, next_id, request_ch, worker, shutdown_calls,
                   history_vars>>

\* ------------------------------------------------------------------------
\* Specifications
\* ------------------------------------------------------------------------
\* a step that keeps the number of ids handed out within MaxRequests
WithinBudget == next_id' <= MaxRequests

\* The calculator page with the whole interface of the Backend handle: the
\* events of the page, the poll of every frame, the worker thread, explicit
\* Backend::shutdown calls and the drop of the application.
Next ==
    \/ PollResponse
    \/ \E input \in CalcInputs : EditCalculatorInput(input) /\ WithinBudget
    \/ \E r \in Radices : SelectRadix(r) /\ WithinBudget
    \/ \E k \in 1..MaxRequests : ReuseHistoryEntry(k)
    \/ ClearHistory
    \/ WorkerStep
    \/ Shutdown
    \/ DropBackend
    \/ DropChannels

Spec == Init /\ [][Next]_vars

\* Every field of every page that owns a pending slot, as the application
\* wires them (it calls Backend::shutdown from Drop only). The calculator
\* takes part with its input box and the texts that normalize; the rest of
\* its page is exercised by Spec.
NextPages ==
    \/ PollResponse
    \/ \E f \in NumberFields : \E input \in NumberFieldInputs(f) :
          request_number_conversion(f, input) /\ WithinBudget
    \/ \E f \in FloatFields : \E input \in FloatFieldInputs(f) :
          request_float_conversion(f, input) /\ WithinBudget
    \/ \E f \in TextFields : \E input \in TextFieldInputs(f) :
          request_text_conversion(f, input) /\ WithinBudget
    \/ ClearAllNumber
    \/ ClearAllText
    \/ \E hex_input \in BitHexInputs :
          request_bit_viewer_parse(hex_input) /\ WithinBudget
    \/ \E index \in BitIndices : request_bit_toggle(index) /\ WithinBudget
    \/ request_bit_invert_all /\ WithinBudget
    \/ \E input \in CalcInputs \ {<<"-">>} :
          EditCalculatorInput(input) /\ WithinBudget
    \/ WorkerStep
    \/ DropBackend
    \/ DropChannels

SpecPages == Init /\ [][NextPages]_vars

\* the same under fair scheduling: the worker thread blocks in recv and
\* runs whenever a request is queued, and the UI polls the response channel on
\* every frame
SpecPagesFair == SpecPages /\ WF_vars(WorkerStep) /\ WF_vars(PollResponse)

\* The bit viewer page on its own: the hex text is parsed, single bits are
\* toggled and all bits are inverted, each click sending its request at once.
MaxBitRequests == 3

BitToggleIndices == {0, 3}

WithinBitBudget == next_id' <= MaxBitRequests

NextBits ==
    \/ \E hex_input \in BitHexInputs :
          request_bit_viewer_parse(hex_input) /\ WithinBitBudget
    \/ \E index \in BitToggleIndices : request_bit_toggle(index) /\ WithinBitBudget
    \/ request_bit_invert_all /\ WithinBitBudget
    \/ WorkerStep
    \/ PollResponse

SpecBits == Init /\ [][NextBits]_vars

\* A sequential run of the calculator: the n-th expression typed is the
\* decimal numeral of n, it is typed once the previous response has been
\* handled, and the evaluator succeeds every time.
SeqInput(n) == to_string_u(n)

NextHistory ==
    \/ /\ next_id < SeqRequests
       /\ calculator.pending_id = None
       /\ EditCalculatorInput(SeqInput(next_id + 1))
    \/ /\ WorkerStep
       /\ last_eval' = Some([id |-> Head(request_ch).id, evaluated |-> Ok(F64(7))])
    \/ PollResponse

SpecHistory == Init /\ [][NextHistory]_vars

\* The id counter at its full width. next_id holds the four limbs of the u64;
\* a run starts at a fresh Backend (0) or shortly before the counter wraps,
\* the channels carry bare ids and issued lists the ids handed out so far.
IdStarts == {U64_ZERO, U64(LimbBase - 3, LimbBase - 1, LimbBase - 1, LimbBase - 1)}

InitIds ==
    /\ number_conversion = [f \in NumberFields |-> NumberConversionFieldDefault]
    /\ float_conversion = [f \in FloatFields |-> FloatConversionFieldDefault]
    /\ text_conversion = [f \in TextFields |-> TextConversionFieldDefault]
    /\ bit_viewer = BitViewerStateDefault
    /\ calculator = CalculatorStateDefault
    /\ next_id \in IdStarts
    /\ request_ch = <<>>
    /\ response_ch = <<>>
    /\ worker = "Running"
    /\ handle = "Alive"
    /\ shutdown_calls = 0
    /\ issued = <<>>
    /\ rejected = {}
    /\ handled = {}
    /\ last_eval = None
    /\ scan = ScanIdle
    /\ fmt = FormatIdle

\* let id = backend.next_id(); backend.send_request(.. id ..)
IdsIssue ==
    /\ Len(request_ch) + Len(response_ch) < MaxInFlight
    /\ Len(issued) < MaxIdCalls
    /\ next_id' = wrapping_add_1(next_id)
    /\ request_ch' = Append(request_ch, next_id)
    /\ issued' = Append(issued, next_id)
    /\ UNCHANGED <<scan, fmt, frontend, response_ch, worker, handle, shutdown_calls,
                   rejected, handled, last_eval>>

\* the worker answers the oldest request with a response of the same id
IdsAnswer ==
    /\ request_ch # <<>>
    /\ request_ch' = Tail(request_ch)
    /\ response_ch' = Append(response_ch, Head(request_ch))
    /\ UNCHANGED <<scan, fmt, frontend, next_id, worker, handle, shutdown_calls,
                   history_vars>>

\* poll_responses takes the oldest response
IdsPoll ==
    /\ response_ch # <<>>
    /\ response_ch' = Tail(response_ch)
    /\ UNCHANGED <<scan, fmt, frontend, next_id, request_ch, worker, handle,
                   shutdown_calls, history_vars>>

NextIds == IdsIssue \/ IdsAnswer \/ IdsPoll

SpecIds == InitIds /\ [][NextIds]_vars

\* The formatter on the result of a calculator request: the expression was
\* the decimal numeral of a u64 n, the evaluator returned n as an f64, the
\* response waits in the channel and poll_responses formats it in the radix
\* of the calculator.
FormatRequest(n, radix) ==
    [kind |-> "Calculator", id |-> 0, decimal_expr |-> format_radix(n, 10),
     radix |-> radix, original_input |-> format_radix(n, 10)]

InitFormat ==
    \E n \in FormatInputs : \E radix \in ScanRadices :
        /\ number_conversion = [f \in NumberFields |-> NumberConversionFieldDefault]
        /\ float_conversion = [f \in FloatFields |-> FloatConversionFieldDefault]
        /\ text_conversion = [f \in TextFields |-> TextConversionFieldDefault]
        /\ bit_viewer = BitViewerStateDefault
        /\ calculator = [CalculatorStateDefault EXCEPT
                             !.radix = radix,
                             !.input = format_radix(n, 10),
                             !.pending_id = Some(0)]
        /\ next_id = 1
        /\ request_ch = <<>>
        /\ response_ch = <<handle_calculator(FormatRequest(n, radix),
                                             Ok(u64_as_f64(n)))>>
        /\ worker = "Running"
        /\ handle = "Alive"
        /\ shutdown_calls = 0
        /\ issued = <<[field |-> "calculator", request |-> FormatRequest(n, radix)]>>
        /\ rejected = {}
        /\ handled = {}
        /\ last_eval = Some([id |-> 0, evaluated |-> Ok(u64_as_f64(n))])
        /\ scan = ScanIdle
        /\ fmt = FormatIdle

NextFormat == PollResponse

SpecFormat == InitFormat /\ [][NextFormat]_vars

\* convert_expr_from_base followed one iteration of its loop at a time, on
\* every expression of ScanExprs in every radix of the selector.
InitScan ==
    /\ number_conversion = [f \in NumberFields |-> NumberConversionFieldDefault]
    /\ float_conversion = [f \in FloatFields |-> FloatConversionFieldDefault]
    /\ text_conversion = [f \in TextFields |-> TextConversionFieldDefault]
    /\ bit_viewer = BitViewerStateDefault
    /\ calculator = CalculatorStateDefault
    /\ next_id = 0
    /\ request_ch = <<>>
    /\ response_ch = <<>>
    /\ worker = "Running"
    /\ handle = "Alive"
    /\ shutdown_calls = 0
    /\ issued = <<>>
    /\ rejected = {}
    /\ handled = {}
    /\ last_eval = None
    /\ scan \in {ScanStart(expr, radix) : expr \in ScanExprs, radix \in ScanRadices}
    /\ fmt = FormatIdle

\* one iteration of the while loop: continue, or return Err
ScanIteration ==
    /\ scan.result = None
    /\ scan.i <= Len(scan.chars)
    /\ LET step == scan_step(scan.chars, scan.radix, scan.i, scan.out,
                             scan.last_kind, scan.last_ident)
       IN  scan' = IF step.ok
                   THEN [scan EXCEPT !.i = step.val.i, !.out = step.val.out,
                                     !.last_kind = step.val.last_kind,
                                     !.last_ident = step.val.last_ident]
                   ELSE [scan EXCEPT !.result = Some(step)]
    /\ UNCHANGED <<frontend, backend_vars, history_vars, fmt>>

\* the loop is left at the end of the input: Ok(out)
ScanReturn ==
    /\ scan.result = None
    /\ scan.i > Len(scan.chars)
    /\ scan' = [scan EXCEPT !.result = Some(Ok(scan.out))]
    /\ UNCHANGED <<frontend, backend_vars, history_vars, fmt>>

NextScan == ScanIteration \/ ScanReturn

SpecScan == InitScan /\ [][NextScan]_vars

\* convert_expr_from_base on the call f(0) of each recognized function name f,
\* in each radix of the selector
FunctionCalls == {name \o <<"(", "0", ")">> : name \in FunctionNames}

InitFunctions ==
    /\ number_conversion = [f \in NumberFields |-> NumberConversionFieldDefault]
    /\ float_conversion = [f \in FloatFields |-> FloatConversionFieldDefault]
    /\ text_conversion = [f \in TextFields |-> TextConversionFieldDefault]
    /\ bit_viewer = BitViewerStateDefault
    /\ calculator = CalculatorStateDefault
    /\ next_id = 0
    /\ request_ch = <<>>
    /\ response_ch = <<>>
    /\ worker = "Running"
    /\ handle = "Alive"
    /\ shutdown_calls = 0
    /\ issued = <<>>
    /\ rejected = {}
    /\ handled = {}
    /\ last_eval = None
    /\ \E expr \in FunctionCalls : \E radix \in ScanRadices :
           scan = ScanStart(expr, radix)
    /\ fmt = FormatIdle

SpecFunctions == InitFunctions /\ [][NextScan]_vars

\* format_auto followed one step at a time, on each value, radix and
\* frac_digits given to it
InitFloat ==
    /\ number_conversion = [f \in NumberFields |-> NumberConversionFieldDefault]
    /\ float_conversion = [f \in FloatFields |-> FloatConversionFieldDefault]
    /\ text_conversion = [f \in TextFields |-> TextConversionFieldDefault]
    /\ bit_viewer = BitViewerStateDefault
    /\ calculator = CalculatorStateDefault
    /\ next_id = 0
    /\ request_ch = <<>>
    /\ response_ch = <<>>
    /\ worker = "Running"
    /\ handle = "Alive"
    /\ shutdown_calls = 0
    /\ issued = <<>>
    /\ rejected = {}
    /\ handled = {}
    /\ last_eval = None
    /\ scan = ScanIdle
    /\ fmt \in {FormatStart(val, radix, frac_digits) :
                   val \in FloatInputs, radix \in ScanRadices,
                   frac_digits \in FracDigitChoices}

\* format_auto up to the loop of format_float_in_radix: it returns the
\* integer rendering, or format_float_in_radix returns before its loop, or
\* the loop is entered with f = frac
FormatCall ==
    /\ fmt.pc = "call"
    /\ LET entry == format_float_entry(fmt.val, fmt.radix, fmt.frac_digits)
       IN  fmt' = IF is_finite(fmt.val) /\ is_near_integer(fmt.val)
                  THEN [fmt EXCEPT !.pc = "done",
                            !.result = Some(format_value_in_radix(
                                                nearest_as_i128(fmt.val), fmt.radix))]
                  ELSE IF entry.ret # None
                  THEN [fmt EXCEPT !.pc = "done", !.result = entry.ret]
                  ELSE [fmt EXCEPT !.pc = "loop", !.int_str = entry.int_str,
                                   !.f = fmt.val.frac]
    /\ UNCHANGED <<frontend, backend_vars, history_vars, scan>>

\* one iteration of `for _ in 0..frac_digits`; each iteration pushes one
\* digit, so Len(frac_str) counts the iterations; `break` leaves the loop
FractionDigit ==
    /\ fmt.pc = "loop"
    /\ Len(fmt.frac_str) < fmt.frac_digits
    /\ LET step == fraction_step(fmt.f, fmt.radix)
       IN  fmt' = [fmt EXCEPT !.frac_str = Append(fmt.frac_str, step.digit),
                              !.f = step.f,
                              !.pc = IF below_tolerance(step.f) THEN "join" ELSE "loop"]
    /\ UNCHANGED <<frontend, backend_vars, history_vars, scan>>

\* after the loop: the parts are joined and returned
FormatJoin ==
    /\ \/ fmt.pc = "join"
       \/ fmt.pc = "loop" /\ Len(fmt.frac_str) >= fmt.frac_digits
    /\ fmt' = [fmt EXCEPT !.pc = "done",
                          !.result = Some(join_parts(fmt.val.n.neg, fmt.int_str,
                                                     fmt.frac_str))]
    /\ UNCHANGED <<frontend, backend_vars, history_vars, scan>>

NextFloat == FormatCall \/ FractionDigit \/ FormatJoin

SpecFloat == InitFloat /\ [][NextFloat]_vars

\* the same under a scheduler that lets the call run: the formatter is
\* straight-line code on the UI thread, so a step that can be taken is taken
SpecFloatFair == SpecFloat /\ WF_vars(NextFloat)

\* The normalizer on one character and the formatter on an integer value, in
\* each radix from 2 to 36.
InitRadix ==
    /\ number_conversion = [f \in NumberFields |-> NumberConversionFieldDefault]
    /\ float_conversion = [f \in FloatFields |-> FloatConversionFieldDefault]
    /\ text_conversion = [f \in TextFields |-> TextConversionFieldDefault]
    /\ bit_viewer = BitViewerStateDefault
    /\ calculator = CalculatorStateDefault
    /\ next_id = 0
    /\ request_ch = <<>>
    /\ response_ch = <<>>
    /\ worker = "Running"
    /\ handle = "Alive"
    /\ shutdown_calls = 0
    /\ issued = <<>>
    /\ rejected = {}
    /\ handled = {}
    /\ last_eval = None
    /\ \E radix \in RadixRange :
           /\ scan \in {ScanStart(<<c>>, radix) : c \in RadixChars}
           /\ fmt \in {FormatStart(val, radix, FRACTION_DIGITS) : val \in RadixValues}

NextRadix == ScanIteration \/ ScanReturn \/ FormatCall

SpecRadix == InitRadix /\ [][NextRadix]_vars

\* ------------------------------------------------------------------------
\* Properties
\* ------------------------------------------------------------------------
\* the ids handed out so far for the given field
IssuedFor(field) == {i - 1 : i \in {j \in DOMAIN issued : issued[j].field = field}}

Max(S) == CHOOSE m \in S : \A n \in S : n <= m

\* the response poll_responses is about to handle
polled == Head(response_ch)

\* C1: last request wins. When the response polled for the calculator
\* belongs to a request that was followed by a later calculator request, the
\* calculator is left as it is and its slot still holds the later id; the
\* response of the latest request clears the slot and stores its result.
LastRequestWins ==
    [][(PollResponse /\ polled.kind = "Calculator") =>
          LET latest == Max(IssuedFor("calculator")) IN
          IF polled.id < latest
          THEN /\ calculator' = calculator
               /\ calculator'.pending_id = Some(latest)
          ELSE /\ calculator'.pending_id = None
               /\ calculator'.last_error = polled.error
               /\ polled.error # None => calculator'.last_value = None
               /\ polled.error = None =>
                      /\ calculator'.last_value = polled.value
                      /\ calculator'.output =
                             format_auto(polled.value[1], calculator.radix)]_vars

\* request 0 was answered after request 1 had been issued and was dropped;
\* the response of request 1 then delivered a value
LastRequestWinsWitness ==
    /\ <<0, "dropped">> \in handled
    /\ <<1, "applied">> \in handled
    /\ calculator.pending_id = None
    /\ calculator.last_value # None

\* C2: a response whose id is in no slot of its kind changes nothing
MismatchedResponseIsNoOp ==
    [][(PollResponse /\ \A p \in slots_of_kind(polled.kind) : p # Some(polled.id))
          => UNCHANGED frontend]_vars

\* the response of a number conversion was dropped because "clear all" had
\* emptied the slots, while a text field kept the result it had received
MismatchedResponseIsNoOpWitness ==
    /\ \E h \in handled :
          /\ h[2] = "dropped"
          /\ issued[h[1] + 1].field \in NumberFields
    /\ \A f \in NumberFields : number_conversion[f] = NumberConversionFieldDefault
    /\ \E f \in TextFields : text_conversion[f].output # <<>>

\* the fields that own a pending slot, and the slot of each
AllFields == NumberFields \cup FloatFields \cup TextFields \cup {"bit_viewer", "calculator"}

slot_of(field) ==
    IF field \in NumberFields THEN number_conversion[field].pending_id
    ELSE IF field \in FloatFields THEN float_conversion[field].pending_id
    ELSE IF field \in TextFields THEN text_conversion[field].pending_id
    ELSE IF field = "bit_viewer" THEN bit_viewer.pending_id
    ELSE calculator.pending_id

\* no response with this id has been handled
Unanswered(id) == \A h \in handled : h[1] # id

\* C3 as stated: the slot of a field is Some(id) exactly when request id has
\* been issued for the field and no response with that id has been handled
PendingExactlyWhileUnanswered ==
    \A field \in AllFields :
        /\ slot_of(field) # None => slot_of(field)[1] \in IssuedFor(field)
        /\ \A id \in IssuedFor(field) :
               slot_of(field) = Some(id) <=> Unanswered(id)

\* C3, amended: a slot that is Some(id) holds the latest id issued for its
\* field, and no response with that id has been handled. (An earlier request
\* of the field that is still unanswered is not in the slot, and "clear all"
\* empties the slots of its page whatever is in flight.)
PendingOnlyLatestUnanswered ==
    \A field \in AllFields :
        slot_of(field) # None =>
            /\ IssuedFor(field) # {}
            /\ slot_of(field) = Some(Max(IssuedFor(field)))
            /\ Unanswered(slot_of(field)[1])

\* two requests of one field are in flight and the slot holds the second
PendingOnlyLatestUnansweredWitness ==
    \E field \in AllFields :
        /\ IssuedFor(field) = {0, 1}
        /\ slot_of(field) = Some(1)
        /\ handled = {}
        /\ Len(request_ch) + Len(response_ch) = 2

\* the number of calculator requests of a sequential run answered so far
Completed == IF calculator.pending_id = None THEN next_id ELSE next_id - 1

Min(a, b) == IF a < b THEN a ELSE b

\* C4: in a sequential run the history holds the entries of the latest
\* min(n, MAX_HISTORY) of the n requests answered so far, oldest first: at
\* most MAX_HISTORY entries, the oldest ones evicted
HistoryBoundedFifo ==
    LET kept == Min(Completed, MAX_HISTORY) IN
    /\ Len(calculator.history) = kept
    /\ Len(calculator.history) <= MAX_HISTORY
    /\ \A k \in 1..kept :
          calculator.history[k].input = SeqInput(Completed - kept + k)

\* all SeqRequests requests are answered: the history is full and its oldest
\* entry is the one of request number SeqRequests - MAX_HISTORY + 1
HistoryBoundedFifoWitness ==
    /\ next_id = SeqRequests
    /\ calculator.pending_id = None
    /\ Len(calculator.history) = MAX_HISTORY
    /\ calculator.history[1].input = SeqInput(SeqRequests - MAX_HISTORY + 1)
    /\ calculator.history[MAX_HISTORY].input = SeqInput(SeqRequests)

\* the request that was issued with the given id
RequestOf(id) == issued[id + 1].request

\* C5: the history grows, by one entry at its end, exactly in a step that
\* handles a calculator response which matches the pending id and carries a
\* value, and the entry's input and decimal_expr are those of the request
\* with the response's id; no other step adds to the history (an error
\* response, a stale response, an edit that fails to normalize and an edit
\* that sends a request leave it as it is).
HistoryGrowsOnlyOnSuccess ==
    [][LET before == calculator.history
           after == calculator'.history
       IN  IF /\ PollResponse
              /\ polled.kind = "Calculator"
              /\ calculator.pending_id = Some(polled.id)
              /\ polled.value # None
           THEN /\ after # <<>>
                /\ SubSeq(after, 1, Len(after) - 1) =
                       (IF Len(before) < MAX_HISTORY THEN before ELSE Tail(before))
                /\ after[Len(after)].input = RequestOf(polled.id).original_input
                /\ after[Len(after)].decimal_expr = RequestOf(polled.id).decimal_expr
           ELSE after = before \/ after = <<>>]_vars

\* request 0, typed in radix 16, was answered with a value and is the only
\* entry; request 1 was answered with an error
HistoryGrowsOnlyOnSuccessWitness ==
    /\ Len(calculator.history) = 1
    /\ calculator.history[1].input = <<"1", "2">>
    /\ calculator.history[1].decimal_expr = <<"1", "8">>
    /\ <<1, "applied">> \in handled
    /\ calculator.last_error # None

\* C6: every calculator response the worker has put on the response channel
\* carries exactly one of value and error, a value it carries is finite, and
\* the response of the evaluator's latest call reflects what the evaluator
\* returned: its error string, an error for a number that is not finite, the
\* number otherwise.
CalculatorResponseWellFormed ==
    \A i \in DOMAIN response_ch :
        LET r == response_ch[i] IN
        r.kind = "Calculator" =>
            /\ (r.value = None) # (r.error = None)
            /\ r.value # None => is_finite(r.value[1])
            /\ (last_eval # None /\ last_eval[1].id = r.id) =>
                   LET evaluated == last_eval[1].evaluated IN
                   IF ~evaluated.ok
                   THEN r.error = Some(evaluated.err) /\ r.value = None
                   ELSE IF evaluated.val.class = "finite"
                   THEN r.value = Some(evaluated.val) /\ r.error = None
                   ELSE r.error # None /\ r.value = None

\* the channel holds the response to an evaluation that returned infinity
\* behind the response to one that returned a finite number
CalculatorResponseWellFormedWitness ==
    /\ Len(response_ch) = 2
    /\ response_ch[1].kind = "Calculator" /\ response_ch[1].value # None
    /\ response_ch[2].kind = "Calculator" /\ response_ch[2].error # None
    /\ last_eval = Some([id |-> response_ch[2].id, evaluated |-> Ok(Infinity)])

\* a step of the calculator page that runs compute
ComputeStep ==
    \/ \E input \in CalcInputs : EditCalculatorInput(input)
    \/ \E r \in Radices : SelectRadix(r)

\* the result of normalizing the text the calculator holds after the step
normalized_after == convert_expr_from_base(Trim(calculator'.input), calculator'.radix)

\* C7: a step of the calculator page whose text fails to normalize stores
\* the normalizer's error in last_error in that same step, takes no request
\* id, puts nothing on the request channel and leaves the pending slot as it
\* was.
NormalizationFailureIsSynchronous ==
    [][(ComputeStep /\ Trim(calculator'.input) # <<>> /\ ~normalized_after.ok) =>
          /\ calculator'.last_error = Some(normalized_after.err)
          /\ next_id' = next_id
          /\ request_ch' = request_ch
          /\ issued' = issued
          /\ calculator'.pending_id = calculator.pending_id]_vars

\* a lone minus sign was typed while request 0 was in flight: its error is
\* shown, request 0 is still the pending one and no second id was taken
NormalizationFailureIsSynchronousWitness ==
    /\ calculator.input = <<"-">>
    /\ calculator.last_error = Some(ErrUnaryMinusMissingDigits)
    /\ calculator.pending_id = Some(0)
    /\ next_id = 1
    /\ Len(request_ch) + Len(response_ch) = 1

\* C8: a request whose send_request returned false is treated as failed: the
\* slot of its field does not keep its id, and while it is the field's latest
\* request the field shows an error
RejectedRequestSurfacesError ==
    \A id \in rejected :
        /\ calculator.pending_id # Some(id)
        /\ id = Max(IssuedFor("calculator")) => calculator.last_error # None

\* a step that ends an error path of the calculator: compute failed to
\* normalize the text, or the response of the pending request carries an
\* error (the evaluator's, or the worker's for a result that is not finite)
ErrorPathStep ==
    \/ ComputeStep /\ Trim(calculator'.input) # <<>> /\ ~normalized_after.ok
    \/ /\ PollResponse
       /\ polled.kind = "Calculator"
       /\ calculator.pending_id = Some(polled.id)
       /\ polled.error # None

\* C9 as stated: an error path stores a message and leaves last_value, output
\* and the history as they were
ErrorPathKeepsPriorResult ==
    [][ErrorPathStep =>
          /\ calculator'.last_error # None
          /\ calculator'.last_value = calculator.last_value
          /\ calculator'.output = calculator.output
          /\ calculator'.history = calculator.history]_vars

\* C9, amended: an error path stores a message, leaves output and the history
\* as they were, and resets last_value to None
ErrorPathKeepsOutputAndHistory ==
    [][ErrorPathStep =>
          /\ calculator'.last_error # None
          /\ calculator'.last_value = None
          /\ calculator'.output = calculator.output
          /\ calculator'.history = calculator.history]_vars

\* request 0 gave the value 7, then the evaluator failed on request 1: the
\* message is stored, output and history are those of request 0, and
\* last_value is gone
ErrorPathKeepsOutputAndHistoryWitness ==
    /\ calculator.last_error = Some("evaluation failed")
    /\ calculator.last_value = None
    /\ calculator.output = <<"7">>
    /\ Len(calculator.history) = 1
    /\ handled = {<<0, "applied">>, <<1, "applied">>}

\* the ids of the messages of a channel, Shutdown messages left out
RECURSIVE IdsOf(_)
IdsOf(ch) ==
    IF ch = <<>> THEN <<>>
    ELSE IF Head(ch).kind = "Shutdown" THEN IdsOf(Tail(ch))
    ELSE <<Head(ch).id>> \o IdsOf(Tail(ch))

StrictlyIncreasing(ids) == \A i, j \in DOMAIN ids : i < j => ids[i] < ids[j]

\* requests are enqueued in the order of their ids: the responses waiting to
\* be polled are in that order, and all of them precede the requests waiting
\* for the worker
ResponsesInRequestOrder == StrictlyIncreasing(IdsOf(response_ch) \o IdsOf(request_ch))

\* the worker dequeues the oldest request; when it is not Shutdown the
\* dispatch produces exactly one response for it, of the request's kind and
\* with its id, whatever the evaluator returns, and the worker puts it at the
\* end of the response channel (as long as the channel has its receiver)
WorkerAnswersOldestRequest ==
    (WorkerStep /\ Head(request_ch).kind # "Shutdown") =>
        LET request == Head(request_ch) IN
        /\ \A evaluated \in EvaluatorResults(request) :
              LET produced == process_request(request, evaluated) IN
              /\ produced # None
              /\ produced[1].kind = request.kind
              /\ produced[1].id = request.id
        /\ ~response_send_fails =>
              /\ worker' = "Running"
              /\ request_ch' = Tail(request_ch)
              /\ Len(response_ch') = Len(response_ch) + 1
              /\ SubSeq(response_ch', 1, Len(response_ch)) = response_ch
              /\ response_ch'[Len(response_ch')].kind = request.kind
              /\ response_ch'[Len(response_ch')].id = request.id

\* C10: the worker answers in FIFO order, one response of the same kind and
\* id per request other than Shutdown that it dequeues while running
WorkerAnswersFifo == []ResponsesInRequestOrder /\ [][WorkerAnswersOldestRequest]_vars

\* the responses to request 0, of the bit viewer, and to request 1, of the
\* calculator, wait on the response channel in that order
WorkerAnswersFifoWitness ==
    /\ Len(response_ch) = 2
    /\ response_ch[1].kind = "BitViewer" /\ response_ch[1].id = 0
    /\ response_ch[2].kind = "Calculator" /\ response_ch[2].id = 1
    /\ request_ch = <<>>

\* the requests the worker will still dequeue: those ahead of the first
\* Shutdown message
RECURSIVE BeforeShutdown(_)
BeforeShutdown(ch) ==
    IF ch = <<>> \/ Head(ch).kind = "Shutdown" THEN <<>>
    ELSE <<Head(ch)>> \o BeforeShutdown(Tail(ch))

\* shutdown has been called before: its message is queued, or the worker has
\* already stopped
ShutdownRequested ==
    \/ worker = "Stopped"
    \/ \E i \in DOMAIN request_ch : request_ch[i].kind = "Shutdown"

\* C11: shutdown is terminal and idempotent. Dequeuing Shutdown stops the
\* worker without a response; so does a response that cannot be sent because
\* its receiver is gone; a stopped worker stays stopped, dequeues nothing and
\* sends nothing; and a further call of shutdown, explicit or from Drop, does
\* not change what the worker does: the requests it will still dequeue, its
\* state, the responses and the ids are as before.
ShutdownTerminalIdempotent ==
    [][/\ (WorkerStep /\ Head(request_ch).kind = "Shutdown") =>
              worker' = "Stopped" /\ response_ch' = response_ch
       /\ (WorkerStep /\ handle = "Dropped") =>
              worker' = "Stopped" /\ response_ch' = response_ch
       /\ worker = "Stopped" =>
              /\ worker' = "Stopped"
              /\ request_ch' = request_ch
              /\ \/ response_ch' = response_ch
                 \/ response_ch' = <<>>
                 \/ response_ch # <<>> /\ response_ch' = Tail(response_ch)
       /\ ((Shutdown \/ DropBackend) /\ ShutdownRequested) =>
              /\ BeforeShutdown(request_ch') = BeforeShutdown(request_ch)
              /\ worker' = worker
              /\ response_ch' = response_ch
              /\ next_id' = next_id]_vars

\* shutdown was called explicitly and again by Drop, and the worker stopped
\* with a response still unpolled
ShutdownTerminalIdempotentWitness ==
    /\ worker = "Stopped"
    /\ shutdown_calls = 1
    /\ handle = "Dropping"
    /\ request_ch = <<>>
    /\ response_ch # <<>>

\* C12: shutdown is invoked once and no send_request succeeds after it: the
\* Shutdown message is the last message of the request channel, so no
\* accepted request waits behind it unanswered. (Backend::shutdown takes
\* &self, so the handle stays usable: a request sent before the worker has
\* dequeued the message is accepted, and Drop sends the message again.)
NoSendAfterShutdown ==
    \A i \in DOMAIN request_ch :
        request_ch[i].kind = "Shutdown" => i = Len(request_ch)

\* the ids of the messages of both channels: requests waiting for the worker
\* and responses waiting to be polled
InFlightIds == IdsOf(response_ch) \o IdsOf(request_ch)

\* the requests of a field that were sent and whose response has not been
\* polled yet
InFlight(field) ==
    {InFlightIds[k] : k \in {j \in DOMAIN InFlightIds :
                                 /\ InFlightIds[j] + 1 \in DOMAIN issued
                                 /\ issued[InFlightIds[j] + 1].field = field}}

\* C13 as stated: no field ever has more than one request in flight
AtMostOneOutstandingPerField ==
    \A field \in AllFields : Cardinality(InFlight(field)) <= 1

\* C13, amended: a field can have several requests in flight, each with its
\* own id and never more than were issued for it; at most one of them is
\* awaited, the latest issued for the field, and every other one is stale
\* (the slot does not hold its id).
AtMostOneAwaitedPerField ==
    /\ \A j, k \in DOMAIN InFlightIds : j # k => InFlightIds[j] # InFlightIds[k]
    /\ \A field \in AllFields :
           /\ InFlight(field) \subseteq IssuedFor(field)
           /\ \A id \in InFlight(field) :
                  slot_of(field) = Some(id) => id = Max(IssuedFor(field))

\* two requests of one field are in flight, the first already answered by the
\* worker, and the slot awaits the second
AtMostOneAwaitedPerFieldWitness ==
    \E field \in AllFields :
        /\ InFlight(field) = {0, 1}
        /\ slot_of(field) = Some(1)
        /\ IdsOf(response_ch) = <<0>>
        /\ IdsOf(request_ch) = <<1>>

\* b is a + 1 modulo 2^64, limb by limb: below some limb k every limb of a is
\* at its maximum and every limb of b is 0, limb k is one more, and the limbs
\* above k agree; or a is u64::MAX and b is 0
IsSuccessorModulo(a, b) ==
    \/ a = U64_MAX /\ b = U64_ZERO
    \/ \E k \in 1..LimbCount :
           /\ \A j \in 1..(k - 1) : a[j] = LimbBase - 1 /\ b[j] = 0
           /\ a[k] < LimbBase - 1 /\ b[k] = a[k] + 1
           /\ \A j \in (k + 1)..LimbCount : b[j] = a[j]

\* the ids of the requests in flight, oldest first
IdsInFlight == response_ch \o request_ch

\* C14: next_id hands out the value of the counter and leaves the counter one
\* higher, 2^64 - 1 being followed by 0; the ids of the requests in flight at
\* one time are pairwise different (fewer than 2^64 are ever in flight).
IdsIncreaseAndWrap ==
    /\ [](\A j, k \in DOMAIN IdsInFlight : j # k => IdsInFlight[j] # IdsInFlight[k])
    /\ [](\A k \in DOMAIN issued :
              k > 1 => IsSuccessorModulo(issued[k - 1], issued[k]))
    /\ [][IdsIssue => /\ request_ch'[Len(request_ch')] = next_id
                      /\ IsSuccessorModulo(next_id, next_id')]_vars

\* the counter has wrapped: the ids 2^64 - 1 and 0 are in flight together
IdsIncreaseAndWrapWitness ==
    /\ IdsInFlight = <<U64_MAX, U64_ZERO>>
    /\ next_id = U64(1, 0, 0, 0)

\* an iteration of the scanning loop that emitted a token (it neither
\* skipped whitespace nor returned an error)
TokenEmitted ==
    /\ ScanIteration
    /\ scan'.result = None
    /\ ~is_whitespace(scan.chars[scan.i])

\* what that iteration appended to out
emitted == SubSeq(scan'.out, Len(scan.out) + 1, Len(scan'.out))

\* the call has returned r for expr in radix
Normalized(expr, radix, r) ==
    (scan.chars = expr /\ scan.radix = radix /\ scan.result # None)
        => scan.result = Some(r)

\* C15: implicit multiplication. A "*" is put in front of a number or an
\* identifier token exactly when the previous token is a Number, an RParen or
\* an Identifier; in front of "(" exactly when the previous token is a Number,
\* an RParen or an Identifier that is not, in any letter case, one of the
\* function names; nothing is put in front of any other token. "2(3+1)"
\* becomes "2*(3+1)", "2pi" becomes "2*pi" and "sin(0)" stays, in radix 10.
ImplicitMultiplication ==
    /\ [](/\ Normalized(<<"2", "(", "3", "+", "1", ")">>, 10,
                        Ok(<<"2", "*", "(", "3", "+", "1", ")">>))
          /\ Normalized(<<"2", "p", "i">>, 10, Ok(<<"2", "*", "p", "i">>))
          /\ Normalized(<<"s", "i", "n", "(", "0", ")">>, 10,
                        Ok(<<"s", "i", "n", "(", "0", ")">>)))
    /\ [][TokenEmitted =>
            LET star == Head(emitted) = "*" /\ Len(emitted) > 1 IN
            CASE scan'.last_kind \in {"Number", "Ident"} ->
                    star <=> scan.last_kind \in {"Number", "RParen", "Ident"}
              [] scan'.last_kind = "LParen" ->
                    star <=>
                        \/ scan.last_kind \in {"Number", "RParen"}
                        \/ /\ scan.last_kind = "Ident"
                           /\ to_lowercase(scan.last_ident[1]) \notin FunctionNames
              [] OTHER -> emitted = <<scan.chars[scan.i]>>]_vars

\* "Sin(1)" was scanned up to its "(": the identifier is a function name in
\* another letter case and no "*" went in between
ImplicitMultiplicationWitness ==
    /\ scan.chars = <<"S", "i", "n", "(", "1", ")">>
    /\ scan.out = <<"S", "i", "n", "(">>
    /\ scan.last_kind = "LParen"

\* the digit symbols by value, in both letter cases
DigitSymbols ==
    <<"0", "1", "2", "3", "4", "5", "6", "7", "8", "9", "a", "b", "c", "d", "e", "f">>

DigitSymbolsUpper ==
    <<"0", "1", "2", "3", "4", "5", "6", "7", "8", "9", "A", "B", "C", "D", "E", "F">>

IsDigitOf(c, radix) ==
    \E v \in 1..radix : c \in {DigitSymbols[v], DigitSymbolsUpper[v]}

ValueOfDigit(c) ==
    (CHOOSE v \in 1..16 : c \in {DigitSymbols[v], DigitSymbolsUpper[v]}) - 1

\* the number a string of digits denotes in a radix
RECURSIVE PlaceValue(_, _)
PlaceValue(digits, radix) ==
    IF digits = <<>> THEN 0
    ELSE PlaceValue(SubSeq(digits, 1, Len(digits) - 1), radix) * radix
         + ValueOfDigit(digits[Len(digits)])

\* numeral is the decimal rendering of v: decimal digits, no leading zero
IsDecimalRendering(numeral, v) ==
    /\ numeral # <<>>
    /\ \A k \in DOMAIN numeral : IsDigitOf(numeral[k], 10)
    /\ Len(numeral) > 1 => numeral[1] # "0"
    /\ PlaceValue(numeral, 10) = v

\* the last position of the maximal run of digits of the radix and "_"
\* separators that starts at position i
DigitRunEnd(chars, i, radix) ==
    Max({j \in i..Len(chars) :
            \A k \in i..j : IsDigitOf(chars[k], radix) \/ chars[k] = "_"})

\* the digits of that run, separators left out
DigitRun(chars, i, radix) ==
    SelectSeq(SubSeq(chars, i, DigitRunEnd(chars, i, radix)),
              LAMBDA c : c # "_")

\* the run is a whole literal: it holds a digit and no decimal point follows
IntegerLiteralAt(chars, i, radix) ==
    /\ i <= Len(chars)
    /\ IsDigitOf(chars[i], radix) \/ chars[i] = "_"
    /\ DigitRun(chars, i, radix) # <<>>
    /\ LET j == DigitRunEnd(chars, i, radix) IN
          ~(radix = 10 /\ j < Len(chars) /\ chars[j + 1] = ".")

DigitOutOfRadixRejected ==
    /\ [](Normalized(<<"G">>, 16, Err(ErrDigitOutOfRadix(16))))
    /\ [][ScanIteration =>
            LET c == scan.chars[scan.i] IN
            (IsDigitOf(c, 10) /\ ~IsDigitOf(c, scan.radix))
                => scan'.result = Some(Err(ErrDigitOutOfRadix(scan.radix)))]_vars

\* a letter, a digit or an underscore
IsWordChar(c) == is_ascii_alphanumeric(c) \/ c = "_"

\* the last position of the maximal run of word characters that starts at i
WordRunEnd(chars, i) ==
    Max({j \in i..Len(chars) : \A k \in i..j : IsWordChar(chars[k])})

\* C19: identifiers pass through unchanged, in every radix. Where a maximal
\* run of letters, digits and underscores starts with a letter or an
\* underscore, the scanner consumes the whole run as one Identifier token and
\* emits it as typed, after the "*" of an implicit multiplication if one is
\* due.
IdentifiersPassThrough ==
    [][ScanIteration =>
          LET chars == scan.chars
              i == scan.i
          IN
          ( /\ is_ascii_alphabetic(chars[i]) \/ chars[i] = "_"
            /\ i > 1 => ~IsWordChar(chars[i - 1]) )
          => /\ TokenEmitted
             /\ scan'.last_kind = "Ident"
             /\ scan'.i = WordRunEnd(chars, i) + 1
             /\ (IF Head(emitted) = "*" THEN Tail(emitted) ELSE emitted)
                    = SubSeq(chars, i, WordRunEnd(chars, i))]_vars

\* a short string of digits parsed as a number of the radix
RECURSIVE SmallFromDigits(_, _)
SmallFromDigits(digits, radix) ==
    IF digits = <<>> THEN 0
    ELSE SmallFromDigits(SubSeq(digits, 1, Len(digits) - 1), radix) * radix
         + ValueOfDigit(digits[Len(digits)])

\* the string of digits parsed as an integer of the radix, its last
\* LoopChunk digits at a time
RECURSIVE WideFromDigits(_, _)
WideFromDigits(digits, radix) ==
    IF digits = <<>> THEN <<>>
    ELSE CHOOSE res \in
             {WideMulAdd(WideFromDigits(SubSeq(digits, 1, Len(digits) - n), radix),
                         radix ^ n,
                         SmallFromDigits(SubSeq(digits, Len(digits) - n + 1,
                                                Len(digits)), radix)) :
                 n \in {IF Len(digits) < LoopChunk(radix)
                        THEN Len(digits) ELSE LoopChunk(radix)}} : TRUE

\* the integer whose f64 was formatted, and the formatted string parsed back
FormatInput == WideFromDigits(issued[1].request.decimal_expr, 10)

ParsedBack == WideFromDigits(calculator.output, calculator.radix)

\* the response has been handled and its value formatted
Formatted == response_ch = <<>> /\ calculator.last_value # None

\* n <= 2^53
WithinF64Mantissa(n) ==
    \/ Len(n) < 4
    \/ n[4] < 32
    \/ n = <<0, 0, 0, 32>>

\* C20 as stated: for every u64 n and every radix of the selector, the string
\* format_auto gives for n as f64 parses back, in that radix, to n
FormatRoundTrip == Formatted => ParsedBack = FormatInput

\* C20, amended: the string parses back to the integer that n as f64 holds;
\* that is n for every n up to 2^53, and beyond 2^53 it is n rounded to 53
\* significant bits.
FormatRoundTripUpToF64 ==
    Formatted =>
        /\ ParsedBack = calculator.last_value[1].n.mag
        /\ WithinF64Mantissa(FormatInput) => ParsedBack = FormatInput
        /\ \A k \in DOMAIN calculator.output :
               IsDigitOf(calculator.output[k], calculator.radix)

\* 2^53 - 1, the largest integer with 53 significant bits, formatted in
\* radix 16
FormatRoundTripUpToF64Witness ==
    /\ Formatted
    /\ calculator.radix = 16
    /\ FormatInput = <<LimbBase - 1, LimbBase - 1, LimbBase - 1, 31>>
    /\ calculator.output =
           <<"1", "F", "F", "F", "F", "F", "F", "F", "F", "F", "F", "F", "F", "F">>

\* x, a count of 2^-64, is below 1e-12: 1e-12 * 2^64 is 18446744.07..., and
\* 18446744 is 281 * 65536 + 31128
RemainderBelowTolerance(x) ==
    \/ Len(x) <= 1
    \/ Len(x) = 2 /\ (x[2] < 281 \/ (x[2] = 281 /\ x[1] <= 31128))

\* f * radix = d + f2 with 0 <= f2 < 1: d is the floor digit and f2 what remains
IsFloorAndRemainder(f, radix, d, f2) ==
    /\ Len(f2) <= LimbCount
    /\ WideMulAdd(f, radix, 0)
           = u128_of_limbs([k \in 1..(LimbCount + 1) |->
                               IF k <= Len(f2) THEN f2[k]
                               ELSE IF k = LimbCount + 1 THEN d ELSE 0])

\* the f64 nearest to 1/3
OneThird ==
    [class |-> "finite", n |-> [neg |-> FALSE, mag |-> <<>>],
     frac |-> <<21504, 21845, 21845, 21845>>]

FormatReturned == fmt.pc = "done"

\* what C21 says of every step of the formatter: frac_str never exceeds
\* frac_digits; it only grows inside the loop, by one valid digit of the
\* radix, the floor of f * radix; and the loop goes on after a digit exactly
\* when the remaining fractional value is not below 1e-12
FractionLoopStep ==
    /\ Len(fmt'.frac_str) <= fmt.frac_digits
    /\ fmt'.frac_str # fmt.frac_str =>
           /\ fmt.pc = "loop"
           /\ Len(fmt'.frac_str) = Len(fmt.frac_str) + 1
           /\ SubSeq(fmt'.frac_str, 1, Len(fmt.frac_str)) = fmt.frac_str
           /\ LET c == fmt'.frac_str[Len(fmt'.frac_str)]
              IN  /\ IsDigitOf(c, fmt.radix)
                  /\ c \in Range(DigitSymbolsUpper)
                  /\ IsFloorAndRemainder(fmt.f, fmt.radix, ValueOfDigit(c), fmt'.f)
           /\ fmt'.pc = "loop" <=> ~RemainderBelowTolerance(fmt'.f)
    /\ fmt.pc \in {"join", "done"} => fmt'.frac_str = fmt.frac_str

\* C21 as stated: the loop terminates, obeys the digit bound and the early
\* stop, and format(1.0/3.0, 16, 8) stops before 8 digits
FractionLoopStopsBeforeEight ==
    /\ [][FractionLoopStep]_vars
    /\ <>FormatReturned
    /\ [](FormatReturned /\ fmt.val = OneThird /\ fmt.radix = 16
              /\ fmt.frac_digits = 8
          => Len(fmt.frac_str) < 8)

\* C21, amended: the loop terminates, emits at most frac_digits digits, each
\* the floor digit of the radix, and stops early as soon as the remaining
\* fractional value is below 1e-12. The remainder of 1.0/3.0 in radix 16
\* stays near 1/3 digit after digit, so format(1.0/3.0, 16, 8) emits all 8
\* digits; with 16 digits allowed the loop stops after the 14th, where the 53
\* bits of the f64 are used up and the remainder is 0.
FractionLoopTerminates ==
    /\ [][FractionLoopStep]_vars
    /\ <>FormatReturned
    /\ [](FormatReturned /\ fmt.val = OneThird /\ fmt.radix = 16
          => /\ fmt.frac_digits = 8
                 => fmt.result = Some(<<"0", ".", "5", "5", "5", "5", "5", "5", "5", "5">>)
             /\ fmt.frac_digits = 16
                 => /\ Len(fmt.frac_str) = 14
                    /\ fmt.f = <<>>)

\* format(1.0/3.0, 16, 16) has returned, having left its loop after 14 digits
FractionLoopTerminatesWitness ==
    /\ FormatReturned
    /\ fmt.val = OneThird
    /\ fmt.radix = 16
    /\ fmt.frac_digits = 16
    /\ fmt.result = Some(<<"0", ".", "5", "5", "5", "5", "5", "5", "5", "5", "5",
                           "5", "5", "5", "5", "4">>)

\* the value of a decimal digit or a letter of either case as a digit: 0-9,
\* then A or a = 10 up to Z or z = 35
DigitValue36(c) == IndexOf(DecDigits \o UpperLetters, to_ascii_uppercase(c)) - 1

\* the number a string of such digits denotes in a radix
RECURSIVE PlaceValue36(_, _)
PlaceValue36(digits, radix) ==
    IF digits = <<>> THEN 0
    ELSE PlaceValue36(SubSeq(digits, 1, Len(digits) - 1), radix) * radix
         + DigitValue36(digits[Len(digits)])

\* C22: radix generality. In every radix from 2 to 36 the classifier accepts
\* a decimal digit or a letter exactly when its value is below the radix, and
\* the integer the formatter was given is rendered in digits of that radix
\* that denote it.
RadixGenerality ==
    /\ \A k \in DOMAIN scan.chars :
           is_ascii_alphanumeric(scan.chars[k])
               => (is_digit_in_radix(scan.chars[k], scan.radix)
                      <=> DigitValue36(scan.chars[k]) < scan.radix)
    /\ FormatReturned /\ fmt.val.frac = <<>> =>
           /\ \A k \in DOMAIN fmt.result[1] :
                  /\ is_ascii_alphanumeric(fmt.result[1][k])
                  /\ DigitValue36(fmt.result[1][k]) < fmt.radix
           /\ u128_from(PlaceValue36(fmt.result[1], fmt.radix)) = fmt.val.n.mag

\* the value being formatted without its sign, and its rendering
Magnitude == [fmt.val EXCEPT !.n = [neg |-> FALSE, mag |-> fmt.val.n.mag]]

MagnitudeRendering == format_auto_digits(Magnitude, fmt.radix, fmt.frac_digits)

Serving == worker = "Running" /\ handle = "Alive"

Enqueued(id) ==
    \E k \in DOMAIN request_ch :
        request_ch[k].kind # "Shutdown" /\ request_ch[k].id = id

\* the worker has sent the response of request id
Answered(id) ==
    \/ \E k \in DOMAIN response_ch : response_ch[k].id = id
    \/ ~Unanswered(id)

error_of(field) ==
    IF field \in NumberFields THEN number_conversion[field].error
    ELSE IF field \in FloatFields THEN float_conversion[field].error
    ELSE IF field \in TextFields THEN text_conversion[field].error
    ELSE IF field = "bit_viewer" THEN bit_viewer.error
    ELSE calculator.last_error

\* C24: every request runs to completion. While the worker is running and
\* the handle is polled, a request in the queue is eventually answered, and a
\* slot that holds an id eventually lets go of it: it is taken over by a
\* later request of the field or it becomes None. A poll that empties a slot
\* handles the response of the latest request of the field and leaves the
\* field with the outcome of that response.
RequestsRunToCompletion ==
    /\ \A id \in 0..(MaxRequests - 1) : Enqueued(id) ~> (Answered(id) \/ ~Serving)
    /\ \A field \in AllFields : \A id \in 0..(MaxRequests - 1) :
           (slot_of(field) = Some(id)) ~> (slot_of(field) # Some(id) \/ ~Serving)
    /\ [][\A field \in AllFields :
              (PollResponse /\ slot_of(field) # None /\ slot_of(field)' = None) =>
                  /\ polled.id = Max(IssuedFor(field))
                  /\ slot_of(field) = Some(polled.id)
                  /\ error_of(field)' = polled.error]_vars

\* the number page's decimal field shows the result of request 1, its latest,
\* after request 0 of the same field was answered and dropped
RequestsRunToCompletionWitness ==
    /\ Serving
    /\ IssuedFor("decimal_field") = {0, 1}
    /\ handled = {<<0, "dropped">>, <<1, "applied">>}
    /\ slot_of("decimal_field") = None

\* the input box holds a text for which compute sends no request: it is empty
\* after trimming, or it does not normalize in the selected radix
InputMakesNoRequest ==
    \/ Trim(calculator.input) = <<>>
    \/ ~convert_expr_from_base(Trim(calculator.input), calculator.radix).ok

\* C25: an edit that produces no request supersedes the earlier requests.
\* While the input box holds a text that made compute send no request, a
\* calculator response that is polled leaves last_value, last_error, output
\* and history as they are.
EditWithoutRequestSupersedes ==
    [][(PollResponse /\ polled.kind = "Calculator" /\ InputMakesNoRequest) =>
          /\ calculator.last_value' = calculator.last_value
          /\ calculator.last_error' = calculator.last_error
          /\ calculator.output' = calculator.output
          /\ calculator.history' = calculator.history]_vars

\* C26: every history entry is self-consistent. The output of an entry that a
\* poll appends is the polled value rendered in the radix the entry records,
\* the radix of its request.
HistoryEntrySelfConsistent ==
    [][(PollResponse /\ polled.kind = "Calculator"
           /\ Len(calculator.history') > Len(calculator.history)) =>
          LET entry == calculator.history'[Len(calculator.history')] IN
          /\ entry.radix = polled.radix
          /\ entry.output = format_auto(polled.value[1], entry.radix)]_vars

\* the bits a ToggleBit or InvertAll request turns the given bits into
bits_after(operation, bits) ==
    handle_bit_viewer([id |-> 0, operation |-> operation, hex_input |-> None,
                       current_bits |-> Some(bits)]).binary_bits

IsBitOperation(id) ==
    /\ id \in IssuedFor("bit_viewer")
    /\ RequestOf(id).operation.op \in {"ToggleBit", "InvertAll"}

\* request first + 1 was issued right after request first, before the
\* response of first was handled (which is why that response was dropped), and
\* the two are InvertAll or toggle different indices
BackToBack(first) ==
    /\ IsBitOperation(first) /\ IsBitOperation(first + 1)
    /\ <<first, "dropped">> \in handled
    /\ RequestOf(first).operation # RequestOf(first + 1).operation
           \/ RequestOf(first).operation.op = "InvertAll"

\* C27: no bit operation is lost. When the response of the second of two
\* operations requested back to back is applied, binary_bits is the second
\* operation applied to the first operation applied to the bits the first
\* request was made with.
NoBitOperationLost ==
    [][(/\ PollResponse
        /\ polled.kind = "BitViewer"
        /\ bit_viewer.pending_id = Some(polled.id)
        /\ polled.id >= 1
        /\ BackToBack(polled.id - 1)) =>
          bit_viewer.binary_bits' =
              bits_after(RequestOf(polled.id).operation,
                         bits_after(RequestOf(polled.id - 1).operation,
                                    RequestOf(polled.id - 1).current_bits[1]))]_vars

\* everything the frontend holds for a field
field_state(field) ==
    IF field \in NumberFields THEN number_conversion[field]
    ELSE IF field \in FloatFields THEN float_conversion[field]
    ELSE IF field \in TextFields THEN text_conversion[field]
    ELSE IF field = "bit_viewer" THEN bit_viewer
    ELSE calculator

\* C28: fields are isolated from each other. No id is held by two pending
\* slots; a poll changes nothing of a field (input, outputs, error, pending
\* slot, and the history for the calculator) unless the slot of that field
\* holds the id of the polled response; and a step that issues a request for a
\* field leaves the pending slot of every other field as it is.
FieldsIsolated ==
    /\ [](\A f \in AllFields : \A g \in AllFields \ {f} :
             slot_of(f) # None => slot_of(f) # slot_of(g))
    /\ [][PollResponse =>
             \A f \in AllFields :
                 field_state(f)' # field_state(f) => slot_of(f) = Some(polled.id)]_vars
    /\ [][Len(issued') > Len(issued) =>
             \A f \in AllFields \ {issued'[Len(issued')].field} :
                 slot_of(f)' = slot_of(f)]_vars

\* the response of request 0 was applied to the ASCII field of the text page
\* while request 1 of the hex field of the same page was pending, and the hex
\* field shows nothing
FieldsIsolatedWitness ==
    /\ IssuedFor("ascii_to_hex") = {0}
    /\ IssuedFor("hex_to_ascii") = {1}
    /\ handled = {<<0, "applied">>}
    /\ text_conversion.ascii_to_hex.output # <<>>
    /\ text_conversion.hex_to_ascii.output = <<>>
    /\ slot_of("hex_to_ascii") = Some(1)

\* C29: recognized function names survive normalization in every radix. The
\* call f(0) of a recognized function name f normalizes to itself: the name
\* unchanged, immediately followed by "(", with no "*" put in.
FunctionNamesSurvive ==
    (scan.chars \in FunctionCalls /\ scan.result # None) =>
        scan.result = Some(Ok(scan.chars))

\* the run of number characters that follows the "-" at the scan position
LiteralAfterMinus ==
    SubSeq(scan.chars, scan.i + 1, NumberRunEnd(scan.chars, scan.i + 1, 10) - 1)

\* a literal that is accepted in radix 10: digits, or digits with one interior
\* decimal point
AcceptedDecimalLiteral(d) ==
    /\ d # <<>>
    /\ \A k \in DOMAIN d : is_ascii_digit(d[k]) \/ d[k] = "."
    /\ convert_number_token(d, 10).ok

\* C30: negative decimal literals are accepted in radix 10. An iteration at a
\* "-" in a unary position that is followed by an accepted literal d does not
\* fail, and appends "-" and the normalized d to the output.
NegativeLiteralsAccepted ==
    [][(/\ ScanIteration
        /\ scan.radix = 10
        /\ scan.chars[scan.i] = "-"
        /\ can_unary_minus(scan.last_kind)
        /\ AcceptedDecimalLiteral(LiteralAfterMinus)) =>
          /\ scan.result' = None
          /\ scan.out' = scan.out \o <<"-">>
                             \o convert_number_token(LiteralAfterMinus, 10).val]_vars

====
